---------------------------- MODULE Spec2Model ----------------------------
(***************************************************************************)
(* Service registry, base service runtime and their callers of the        *)
(* nodejs-microservice-template repository, as a state machine.           *)
(*                                                                         *)
(* Time is Date.now() in abstract units.  A JavaScript object reference is *)
(* modelled by the field id of the record it points to: id is the          *)
(* allocation number of the object, not a property the code stores.        *)
(***************************************************************************)
EXTENDS Integers, Sequences, FiniteSets, TLC

(***************************************************************************)
(* Bounds of the model.                                                    *)
(***************************************************************************)
\* Date.now() is not advanced beyond MaxTime.
MaxTime == 4
\* Number of entry objects ever allocated by register.
MaxObjects == 2
\* Number of suspended async calls at a time.
MaxPending == 2
\* Number of times the services of the process install their handlers.
MaxInstalls == 2
\* Date.now() is not advanced beyond MaxUptime while services run.
MaxUptime == 2
\* Number of rejected handler promises that await their report at a time;
\* the ones beyond it are not counted.
MaxRejected == 2

(***************************************************************************)
(* Program parameters (scaled to the abstract time unit).                  *)
(***************************************************************************)
\* this.timeout = options.timeout || 30000
timeout == 1
\* this.cleanupInterval = options.cleanupInterval || 300000
cleanupInterval == 2

(***************************************************************************)
(* Argument values the callers of the registry are drawn from.  "api" has  *)
(* two instances, at different hosts and ports; "api:v2" at "localhost"    *)
(* and "api" at "v2:localhost" are two triples with one key.  The empty    *)
(* string and port 0 are the falsy values register rejects.                *)
(***************************************************************************)
Names == {"api", "api:v2"}
\* (name, host, port) arguments of register and unregister
Triples ==
    { <<"api", "localhost", 3002>>,
      <<"api", "v2:localhost", 3001>>, <<"api:v2", "localhost", 3001>>,
      <<"", "localhost", 3001>>, <<"api", "", 3001>>, <<"api", "localhost", 0>> }
\* metadata objects: sets of <<property, value>> pairs; {} is the default {}
Metas == {{}, {<<"env", "production">>}}

NULL == "null"

VARIABLES
    services,   \* ServiceRegistry.services : key -> entry object
    now,        \* Date.now()
    timer,      \* time at which the setInterval callback of the registry fires next
    nextId,     \* number of entry objects allocated so far
    ret,        \* the last operation performed and what it returned
    svc,        \* the BaseService instances of the process: instance -> fields
    mq,         \* the microtask queue: continuations of suspended async calls
    SERVICE_HOST, \* process.env.SERVICE_HOST
    listeners,  \* the process: instances whose handlers process.on added, in order
    emitting,   \* the process: listeners the event being emitted has yet to call
    rejected,   \* the process: rejected promises of handlers, not yet reported
    exitCode,   \* the process: argument of process.exit, -1 while it runs
    ready,      \* the channel: messages in the queue, ready for delivery
    unacked,    \* the channel: deliveries neither acknowledged nor rejected
    consumer,   \* the channel: the consumer channel.consume has subscribed
    deliveryTag, \* the channel: parity of the number of deliveries made
    queues,     \* BaseService.queues : instance -> names in the queue table
    exchanges,  \* BaseService.exchanges : instance -> names in the exchange table
    chanOps,    \* the channel: the operations the services have called on it
    io,         \* calls of the services suspended at an await of the channel
    connection, \* RabbitmqConfig.connection: a connection, or NoConn
    channel,    \* RabbitmqConfig.channel: the connection it is a channel of
    conns,      \* the connections amqp.connect has opened: whether each is open
    timers,     \* pending setTimeout callbacks of _reconnect: the loss of each
    attempts,   \* connect() calls suspended at an await
    reachable,  \* whether the broker accepts connections
    argv,       \* process.argv: the -s= argument
    instances,  \* ServiceFactory.services : id -> instance
    closeCalled \* whether close() was called after the last call of connect()

vars == <<services, now, timer, nextId, ret, svc, mq, SERVICE_HOST,
          listeners, emitting, rejected, exitCode, ready, unacked, consumer,
          deliveryTag, queues, exchanges, chanOps, io, connection, channel,
          conns, timers, attempts, reachable, argv, instances, closeCalled>>

\* the events of the process that are under way
procVars == <<emitting, rejected, exitCode>>

\* the channel of the message broker
chanVars == <<ready, unacked, consumer, deliveryTag>>

\* the queue and exchange tables of the services and their channel calls
queueVars == <<queues, exchanges, chanOps, io>>

\* the broker connector and the factory
connVars == <<connection, channel, conns, timers, attempts, reachable, argv,
              instances, closeCalled>>

facVars == <<queueVars, connVars>>

\* the state outside the registry
svcVars == <<svc, mq, SERVICE_HOST, listeners, procVars, chanVars, facVars>>

(***************************************************************************)
(* Template literals: `${port}` of an integer.                              *)
(***************************************************************************)
DigitChar(d) ==
    CASE d = 0 -> "0" [] d = 1 -> "1" [] d = 2 -> "2" [] d = 3 -> "3"
      [] d = 4 -> "4" [] d = 5 -> "5" [] d = 6 -> "6" [] d = 7 -> "7"
      [] d = 8 -> "8" [] d = 9 -> "9"

RECURSIVE NumToString(_)
NumToString(n) ==
    IF n < 0 THEN "-" \o NumToString(0 - n)
    ELSE IF n < 10 THEN DigitChar(n)
    ELSE NumToString(n \div 10) \o DigitChar(n % 10)

\* _generateKey(name, host, port): `${name}:${host}:${port}`
_generateKey(name, host, port) ==
    name \o ":" \o host \o ":" \o NumToString(port)

\* url: `http://${host}:${port}`
Url(host, port) == "http://" \o host \o ":" \o NumToString(port)

\* JavaScript falsiness (!v) of a string and of a number
FalsyString(v) == v = ""
FalsyNumber(v) == v = 0

(***************************************************************************)
(* this.services is an object: its properties in property order, which    *)
(* for these keys is insertion order.  A property is the entry object; its *)
(* name is the field key of the entry.                                     *)
(***************************************************************************)
Keys(store) == {store[i].key : i \in DOMAIN store}

\* this.services[key], for a key the object has
Get(store, key) == store[CHOOSE i \in DOMAIN store : store[i].key = key]

\* Object.values(this.services)
ObjectValues == services

\* the expiry test with >= for >: an entry aged exactly timeout is expired
Expired_atTimeout(service, t) == t - service.timestamp >= timeout

\* the expiry test shared by findAll and the cleanup callback
Expired(service, t) == t - service.timestamp > timeout

\* findAll without the expiry test of lines 69-71
findAll_noExpiry(name, t) ==
    LET Keep(service) == service.name = name
    IN  SelectSeq(ObjectValues, Keep)

\* findAll(name) evaluated at time t
findAll(name, t) ==
    LET Keep(service) == IF Expired(service, t) THEN FALSE ELSE service.name = name
    IN  SelectSeq(ObjectValues, Keep)

\* getAll()
getAll == ObjectValues

\* what an operation returned (kind, val) and the line it wrote to the console
Result(op, args, kind, val, log) ==
    [op |-> op, args |-> args, kind |-> kind, val |-> val, log |-> log]

(***************************************************************************)
(* Initial state: new ServiceRegistry(options) at time 0.                  *)
(***************************************************************************)
EmptyStore == <<>>

RegistryInit ==
    /\ services = EmptyStore
    /\ now = 0
    /\ timer = cleanupInterval
    /\ nextId = 0
    /\ ret = Result("new", <<>>, "null", NULL, "Started service registry cleanup interval")

(***************************************************************************)
(* register(name, host, port, metadata)                                    *)
(***************************************************************************)
\* this.services[key].timestamp = timestamp
SetTimestamp(store, key, timestamp) ==
    [i \in DOMAIN store |->
        IF store[i].key = key THEN [store[i] EXCEPT !.timestamp = timestamp]
                              ELSE store[i]]

\* register without line 28: a renewal that leaves the timestamp as it was
RegisterStore_noRefresh(name, host, port, metadata) ==
    LET key == _generateKey(name, host, port)
        timestamp == now
    IN  IF key \in Keys(services)
        THEN services
        ELSE Append(services,
                    [name |-> name, host |-> host, port |-> port,
                     url |-> Url(host, port), timestamp |-> timestamp,
                     metadata |-> metadata, key |-> key, id |-> nextId])

\* register that also stores the metadata of a renewal call
RegisterStore_applyMetadata(name, host, port, metadata) ==
    LET key == _generateKey(name, host, port)
        timestamp == now
    IN  IF key \in Keys(services)
        THEN [i \in DOMAIN services |->
                 IF services[i].key = key
                 THEN [services[i] EXCEPT !.timestamp = timestamp, !.metadata = metadata]
                 ELSE services[i]]
        ELSE Append(services,
                    [name |-> name, host |-> host, port |-> port,
                     url |-> Url(host, port), timestamp |-> timestamp,
                     metadata |-> metadata, key |-> key, id |-> nextId])

RegisterStore(name, host, port, metadata) ==
    LET key == _generateKey(name, host, port)
        timestamp == now
    IN  IF key \in Keys(services)
        THEN SetTimestamp(services, key, timestamp)
        ELSE Append(services,
                    [name |-> name, host |-> host, port |-> port,
                     url |-> Url(host, port), timestamp |-> timestamp,
                     metadata |-> metadata, key |-> key, id |-> nextId])

\* register whose argument validation leaves out !port
Register_noPortCheck(name, host, port, metadata) ==
    LET key == _generateKey(name, host, port)
    IN  IF FalsyString(name) \/ FalsyString(host)
        THEN /\ ret' = Result("register", <<>>, "error",
                              "Service registration requires name, host, and port", "")
             /\ UNCHANGED <<services, now, timer, nextId, svcVars>>
        ELSE /\ key \notin Keys(services) => nextId < MaxObjects
             /\ services' = RegisterStore(name, host, port, metadata)
             /\ nextId' = IF key \in Keys(services) THEN nextId ELSE nextId + 1
             /\ ret' = Result("register", <<>>, "entry", Get(services', key),
                              IF key \in Keys(services) THEN "Service updated"
                                                        ELSE "Service registered")
             /\ UNCHANGED <<now, timer, svcVars>>

Register(name, host, port, metadata) ==
    LET key == _generateKey(name, host, port)
    IN  IF FalsyString(name) \/ FalsyString(host) \/ FalsyNumber(port)
        THEN /\ ret' = Result("register", <<>>, "error",
                              "Service registration requires name, host, and port", "")
             /\ UNCHANGED <<services, now, timer, nextId, svcVars>>
        ELSE /\ key \notin Keys(services) => nextId < MaxObjects
             /\ services' = RegisterStore(name, host, port, metadata)
             /\ nextId' = IF key \in Keys(services) THEN nextId ELSE nextId + 1
             /\ ret' = Result("register", <<>>, "entry", Get(services', key),
                              IF key \in Keys(services) THEN "Service updated"
                                                        ELSE "Service registered")
             /\ UNCHANGED <<now, timer, svcVars>>

(***************************************************************************)
(* unregister(name, host, port)                                            *)
(***************************************************************************)
\* delete of every entry that has the name of the entry at key
Delete_byName(store, key) ==
    LET Other(service) == service.name # Get(store, key).name
    IN  SelectSeq(store, Other)

\* delete this.services[key]
Delete(store, key) ==
    LET Other(service) == service.key # key
    IN  SelectSeq(store, Other)

Unregister(name, host, port) ==
    LET key == _generateKey(name, host, port)
    IN  /\ IF key \in Keys(services)
           THEN /\ services' = Delete(services, key)
                /\ ret' = Result("unregister", <<>>, "bool", TRUE, "Service unregistered")
           ELSE /\ services' = services
                /\ ret' = Result("unregister", <<>>, "bool", FALSE, "")
        /\ UNCHANGED <<now, timer, nextId, svcVars>>

(***************************************************************************)
(* findAll(name), find(name), getAll()                                     *)
(***************************************************************************)
FindAll(name) ==
    /\ ret' = Result("findAll", <<name>>, "list", findAll(name, now), "")
    /\ UNCHANGED <<services, now, timer, nextId, svcVars>>

\* find that picks among all stored entries of the name
Find_anyStored(name) ==
    LET found == findAll_noExpiry(name, now)
    IN  /\ IF Len(found) = 0
           THEN ret' = Result("find", <<name>>, "null", NULL, "")
           ELSE \E i \in 1..Len(found) :
                    ret' = Result("find", <<name>>, "entry", found[i], "")
        /\ UNCHANGED <<services, now, timer, nextId, svcVars>>

\* i is Math.floor(Math.random() * services.length) + 1
Find(name) ==
    LET found == findAll(name, now)
    IN  /\ IF Len(found) = 0
           THEN ret' = Result("find", <<name>>, "null", NULL, "")
           ELSE \E i \in 1..Len(found) :
                    ret' = Result("find", <<name>>, "entry", found[i], "")
        /\ UNCHANGED <<services, now, timer, nextId, svcVars>>

GetAll ==
    /\ ret' = Result("getAll", <<>>, "list", getAll, "")
    /\ UNCHANGED <<services, now, timer, nextId, svcVars>>

(***************************************************************************)
(* The setInterval callback of _startCleanupInterval.  The callback runs   *)
(* when the interval elapses: time does not pass a due timer.  A timer     *)
(* callback is a macrotask: it runs when no microtask is queued.           *)
(***************************************************************************)
\* a sweep that deletes the entries older than twice the timeout
SweepStore_late ==
    LET Fresh(service) == ~(now - service.timestamp > 2 * timeout)
    IN  SelectSeq(services, Fresh)

\* a sweep that deletes every entry but the newest
SweepStore_keepLast ==
    IF services = <<>> THEN services ELSE <<services[Len(services)]>>

SweepStore ==
    LET Fresh(service) == ~Expired(service, now)
    IN  SelectSeq(services, Fresh)

Sweep ==
    /\ mq = <<>>
    /\ now = timer
    /\ services' = SweepStore
    /\ timer' = timer + cleanupInterval
    /\ LET count == Len(services) - Len(services')
       IN  ret' = Result("sweep", <<>>, "count", count,
                         IF count > 0 THEN "Cleaned up expired services" ELSE "")
    /\ UNCHANGED <<now, nextId, svcVars>>

\* the clock advances by one unit, between macrotasks
Tick ==
    /\ mq = <<>>
    /\ now < MaxTime
    /\ now < timer
    /\ now' = now + 1
    /\ ret' = Result("tick", <<>>, "null", NULL, "")
    /\ UNCHANGED <<services, timer, nextId, svcVars>>

(***************************************************************************)
(* The registry under arbitrary calls of its API.                          *)
(***************************************************************************)
\* a process with no listener and no event, and a channel without messages
\* and consumer
\* BaseService constructor, lines 24-25: the tables are empty; nothing has
\* been called on the channel
QueueInit ==
    /\ queues = [s \in {"s1", "s2"} |-> {}]
    /\ exchanges = [s \in {"s1", "s2"} |-> {}]
    /\ chanOps = <<>>
    /\ io = <<>>

\* no connection
NoConn == 0

\* Number of connections, reconnect timers and connect() calls at a time.
MaxConns == 2

\* a connection that has been closed: the program may still refer to it,
\* and closed connections are all alike
Gone == -1

\* the connections that can be open at a time
ConnIds == 1..MaxConns

\* a connection of the broker: whether it is open, how many times
\* connect() has put its 'close' and 'error' listeners on it, and whether
\* the channel createChannel made on it is open
Closed == [open |-> FALSE, handlers |-> 0, chan |-> FALSE]

\* RabbitmqConfig constructor, lines 16-17
ConnectorInit ==
    /\ connection = NoConn
    /\ channel = NoConn
    /\ conns = [c \in ConnIds |-> Closed]
    /\ timers = <<>>
    /\ attempts = <<>>
    /\ closeCalled = FALSE

\* no listener on the process, no event under way, nothing on the channel
EventsInit ==
    /\ listeners = <<>>
    /\ emitting = <<>>
    /\ rejected = 0
    /\ exitCode = -1
    /\ ready = <<>>
    /\ unacked = {}
    /\ consumer = [owner |-> "", callback |-> ""]
    /\ deliveryTag = 0

ProcessInit ==
    /\ EventsInit
    /\ QueueInit
    /\ ConnectorInit
    /\ reachable = TRUE
    /\ argv = "-s=api"
    /\ instances = <<>>

Init ==
    /\ RegistryInit
    /\ svc = <<>>
    /\ mq = <<>>
    /\ SERVICE_HOST = NULL
    /\ ProcessInit

Next ==
    \/ \E t \in Triples, metadata \in Metas : Register(t[1], t[2], t[3], metadata)
    \/ \E t \in Triples : Unregister(t[1], t[2], t[3])
    \/ \E name \in Names : FindAll(name)
    \/ \E name \in Names : Find(name)
    \/ GetAll
    \/ Sweep
    \/ Tick

Spec == Init /\ [][Next]_vars

(***************************************************************************)
(* BaseService.  An async method runs synchronously up to an await; what   *)
(* follows the await is a continuation in the microtask queue, since every *)
(* promise these methods await is already settled.  Continuations run in   *)
(* queue order; a caller may call start() or stop() between any two.       *)
(***************************************************************************)
Instances == {"s1", "s2"}

\* s2 is constructed with the options the factory gives the api service
FactoryOptions ==
    { [name |-> "api", port |-> 3001, broker |-> FALSE, registry |-> TRUE,
       faults |-> {}] }

\* constructor options: name and port as passed ("" and 0 stand for an
\* option that is absent), broker for a connection and a channel, registry
\* for the registry of the process.  faults names what throws for the
\* instance: "broker" an _initializeBroker() of a derived class, "register"
\* the register() of the registry object it was given, "cleanup" a
\* _cleanup() of a derived class
ServiceOptions ==
    { [name |-> "api", port |-> 3001, broker |-> FALSE, registry |-> TRUE,
       faults |-> {}],
      [name |-> "api", port |-> 3001, broker |-> TRUE, registry |-> TRUE,
       faults |-> {}],
      [name |-> "otp", port |-> -1, broker |-> FALSE, registry |-> TRUE,
       faults |-> {}],
      [name |-> "", port |-> 0, broker |-> FALSE, registry |-> FALSE,
       faults |-> {}],
      [name |-> "api", port |-> 3001, broker |-> TRUE, registry |-> TRUE,
       faults |-> {"broker"}],
      [name |-> "api", port |-> 3001, broker |-> FALSE, registry |-> TRUE,
       faults |-> {"register"}],
      [name |-> "api", port |-> 3001, broker |-> FALSE, registry |-> TRUE,
       faults |-> {"cleanup"}] }

\* this.registryInfo = null
NullRef == [id |-> -1, name |-> "", host |-> "", port |-> 0]

\* a reference to an entry object: the object and the fields read through it
Ref(e) == [id |-> e.id, name |-> e.name, host |-> e.host, port |-> e.port]

\* new BaseService(options); handlers counts the calls of
\* _registerProcessEvents(), and stopped records that a stop() has run to
\* line 90
NewService(options) ==
    [ name |-> IF FalsyString(options.name) THEN "unknown-service" ELSE options.name,
      port |-> IF FalsyNumber(options.port) THEN 3000 ELSE options.port,
      broker |-> options.broker,
      env |-> "development",
      registry |-> options.registry,
      registryInfo |-> NullRef,
      isRunning |-> FALSE,
      handlers |-> 0,
      stopped |-> FALSE,
      faults |-> options.faults ]

\* process.env.SERVICE_HOST || 'localhost'
Hostname == IF SERVICE_HOST = NULL \/ SERVICE_HOST = "" THEN "localhost" ELSE SERVICE_HOST

\* a suspended call: the instance, where the call resumes, for a stop() the
\* registryInfo it found at line 82 and the exit code of the handler that
\* awaits it (-1 when no handler does), for a consumer callback its message
Continuation(s, pc) ==
    [inst |-> s, pc |-> pc, info |-> NullRef, caller |-> -1, msg |-> ""]

StopContinuation(s, pc, info, caller) ==
    [inst |-> s, pc |-> pc, info |-> info, caller |-> caller, msg |-> ""]

\* the caller of a stop() that no handler of the process has called
NoHandler == -1

\* the process has not exited and is not in the middle of calling the
\* listeners of an event: code of the services can run
Alive ==
    /\ exitCode = -1
    /\ emitting = <<>>

\* no handler has been called to shut the process down: callers start and
\* stop services
Serving ==
    /\ Alive
    /\ rejected = 0
    /\ \A i \in DOMAIN mq : mq[i].caller = NoHandler

\* the start() calls of s that are suspended
PendingStarts(s) ==
    Cardinality({i \in DOMAIN mq :
                    /\ mq[i].inst = s
                    /\ mq[i].pc \in {"start:broker", "start:registry",
                                     "start:rejected"}})

\* start(), lines 60-64: _registerProcessEvents() and isRunning = true
StartFinish(s, q) ==
    /\ svc' = [svc EXCEPT ![s].handlers = @ + 1, ![s].isRunning = TRUE]
    /\ listeners' = Append(listeners, s)
    /\ mq' = q
    /\ ret' = Result("start", <<s>>, "returned", NULL, "Service started successfully")
    /\ UNCHANGED <<services, now, timer, nextId, SERVICE_HOST, procVars, chanVars, facVars>>

\* start() catching the error and going on as if nothing had failed
StartThrow_swallow(s, q) ==
    /\ svc' = [svc EXCEPT ![s].handlers = @ + 1, ![s].isRunning = TRUE]
    /\ listeners' = Append(listeners, s)
    /\ mq' = q
    /\ ret' = Result("start", <<s>>, "returned", NULL, "Service started successfully")
    /\ UNCHANGED <<services, now, timer, nextId, SERVICE_HOST, procVars, chanVars, facVars>>

\* start(), lines 65-67: the error is logged and thrown again
StartThrow(s, q) ==
    /\ mq' = q
    /\ ret' = Result("start", <<s>>, "thrown", "error", "Failed to start service")
    /\ UNCHANGED <<services, now, timer, nextId, svc, SERVICE_HOST, listeners, procVars, chanVars, facVars>>

\* start(), lines 55-58, with registerWithRegistry() up to the await
StartRegister(s, q) ==
    IF svc[s].registry /\ svc[s].port > 0
    THEN LET name == svc[s].name
             port == svc[s].port
             metadata == {<<"env", svc[s].env>>}
             key == _generateKey(name, Hostname, port)
         IN  IF \/ "register" \in svc[s].faults
                \/ FalsyString(name) \/ FalsyString(Hostname) \/ FalsyNumber(port)
             THEN /\ mq' = Append(q, Continuation(s, "start:rejected"))
                  /\ ret' = Result("start", <<s>>, "pending", NULL,
                                   "Failed to register with service registry")
                  /\ UNCHANGED <<services, now, timer, nextId, svc, SERVICE_HOST, listeners, procVars, chanVars, facVars>>
             ELSE /\ key \notin Keys(services) => nextId < MaxObjects
                  /\ services' = RegisterStore(name, Hostname, port, metadata)
                  /\ nextId' = IF key \in Keys(services) THEN nextId ELSE nextId + 1
                  /\ svc' = [svc EXCEPT ![s].registryInfo = Ref(Get(services', key))]
                  /\ mq' = Append(q, Continuation(s, "start:registry"))
                  /\ ret' = Result("start", <<s>>, "pending", NULL,
                                   "Registered with service registry")
                  /\ UNCHANGED <<now, timer, SERVICE_HOST, listeners, procVars, chanVars, facVars>>
    ELSE StartFinish(s, q)

\* start() without the test of isRunning
StartBody_noRunningTest(s, q) ==
    IF svc[s].broker
    THEN /\ mq' = Append(q, Continuation(s, "start:broker"))
         /\ ret' = Result("start", <<s>>, "pending", NULL,
                          "Initializing message broker connections")
         /\ UNCHANGED <<services, now, timer, nextId, svc, SERVICE_HOST, listeners, procVars, chanVars, facVars>>
    ELSE StartRegister(s, q)

\* start(), lines 43-53, up to the first await
StartBody(s, q) ==
    IF svc[s].isRunning
    THEN /\ mq' = q
         /\ ret' = Result("start", <<s>>, "returned", NULL, "Service is already running")
         /\ UNCHANGED <<services, now, timer, nextId, svc, SERVICE_HOST, listeners, procVars, chanVars, facVars>>
    ELSE IF svc[s].broker
         THEN /\ mq' = Append(q, Continuation(s, "start:broker"))
              /\ ret' = Result("start", <<s>>, "pending", NULL,
                               "Initializing message broker connections")
              /\ UNCHANGED <<services, now, timer, nextId, svc, SERVICE_HOST, listeners, procVars, chanVars, facVars>>
         ELSE StartRegister(s, q)

\* the handler installations made, and those the suspended start() calls
\* may still make
Installs ==
    Len(listeners) +
    Cardinality({i \in DOMAIN mq :
                    mq[i].pc \in {"start:broker", "start:registry",
                                  "start:rejected"}})

\* a call of start()
StartCall(s) ==
    /\ Serving
    /\ Len(mq) < MaxPending
    /\ Installs < MaxInstalls
    /\ StartBody(s, mq)

\* start() resumes after await this._initializeBroker()
ResumeStartBroker ==
    /\ Alive
    /\ mq # <<>>
    /\ Head(mq).pc = "start:broker"
    /\ IF "broker" \in svc[Head(mq).inst].faults
       THEN StartThrow(Head(mq).inst, Tail(mq))
       ELSE StartRegister(Head(mq).inst, Tail(mq))

\* start() resumes after await this.registerWithRegistry()
ResumeStartRegistry ==
    /\ Alive
    /\ mq # <<>>
    /\ Head(mq).pc = "start:registry"
    /\ StartFinish(Head(mq).inst, Tail(mq))

\* start() resumes after await this.registerWithRegistry() with the error
\* that registerWithRegistry() threw
ResumeStartRejected ==
    /\ Alive
    /\ mq # <<>>
    /\ Head(mq).pc = "start:rejected"
    /\ StartThrow(Head(mq).inst, Tail(mq))

\* the queue once a stop() has returned to its caller: a handler resumes
\* after await this.stop(), lines 294-295, with the code it exits with
Returned(s, q, caller) ==
    IF caller = NoHandler THEN q
    ELSE Append(q, StopContinuation(s, "handler:exit", NullRef, caller))

\* the entry a stop() held when it was called, as the log names it
Held(info) == IF info = NullRef THEN NULL ELSE NumToString(info.id)

\* stop(), lines 91-93: the error is logged and thrown again; thrown to a
\* handler, it rejects the promise of the handler, which nothing awaits
StopThrow(s, q, info, caller) ==
    /\ mq' = q
    /\ rejected' = IF caller = NoHandler \/ rejected = MaxRejected THEN rejected
                   ELSE rejected + 1
    /\ ret' = Result("stop", <<s>>, "thrown", Held(info), "Failed to stop service")
    /\ UNCHANGED <<services, now, timer, nextId, svc, SERVICE_HOST,
                   listeners, exitCode, chanVars, facVars>>

\* stop(), lines 89-90: isRunning = false
StopFinish(s, q, caller) ==
    /\ svc' = [svc EXCEPT ![s].isRunning = FALSE, ![s].stopped = TRUE]
    /\ mq' = Returned(s, q, caller)
    /\ ret' = Result("stop", <<s>>, "returned", NULL, "Service stopped successfully")
    /\ UNCHANGED <<services, now, timer, nextId, SERVICE_HOST,
                   listeners, rejected, exitCode, chanVars, facVars>>

\* stop(), line 87: _cleanup() up to the await
StopCleanup(s, q, info, caller) ==
    /\ mq' = Append(q, StopContinuation(s, "stop:cleanup", info, caller))
    /\ ret' = Result("stop", <<s>>, "pending", NULL,
                     IF "cleanup" \in svc[s].faults THEN "Error during cleanup"
                     ELSE "Cleaning up resources")
    /\ UNCHANGED <<services, now, timer, nextId, svc, SERVICE_HOST,
                   listeners, rejected, exitCode, chanVars, facVars>>

\* unregisterFromRegistry() that leaves the registry as it is
UnregisterFromRegistry_skip(s, q, caller) ==
    /\ mq' = Append(q, StopContinuation(s, "stop:unregister", svc[s].registryInfo,
                                        caller))
    /\ ret' = Result("stop", <<s>>, "pending", "false", "")
    /\ UNCHANGED <<services, now, timer, nextId, svc, SERVICE_HOST,
                   listeners, rejected, exitCode, chanVars, facVars>>

\* unregisterFromRegistry(), called where this.registry and
\* this.registryInfo are set
UnregisterFromRegistry(s, q, caller) ==
    LET info == svc[s].registryInfo
        key == _generateKey(info.name, info.host, info.port)
        result == key \in Keys(services)
    IN  /\ services' = IF result THEN Delete(services, key) ELSE services
        /\ svc' = IF result THEN [svc EXCEPT ![s].registryInfo = NullRef] ELSE svc
        /\ mq' = Append(q, StopContinuation(s, "stop:unregister", info, caller))
        /\ ret' = Result("stop", <<s>>, "pending", IF result THEN "true" ELSE "false",
                         IF result THEN "Unregistered from service registry" ELSE "")
        /\ UNCHANGED <<now, timer, nextId, SERVICE_HOST,
                       listeners, rejected, exitCode, chanVars, facVars>>

\* stop(), lines 74-84, up to the first await
StopBody(s, q, caller) ==
    IF ~svc[s].isRunning
    THEN /\ mq' = Returned(s, q, caller)
         /\ ret' = Result("stop", <<s>>, "returned", NULL, "Service is not running")
         /\ UNCHANGED <<services, now, timer, nextId, svc, SERVICE_HOST,
                        listeners, rejected, exitCode, chanVars, facVars>>
    ELSE IF svc[s].registry /\ svc[s].registryInfo # NullRef
         THEN UnregisterFromRegistry(s, q, caller)
         ELSE StopCleanup(s, q, svc[s].registryInfo, caller)

\* a call of stop()
StopCall(s) ==
    /\ Serving
    /\ Len(mq) < MaxPending
    /\ StopBody(s, mq, NoHandler)
    /\ UNCHANGED emitting

\* stop() resumes after await this.unregisterFromRegistry()
ResumeStopUnregister ==
    /\ Alive
    /\ mq # <<>>
    /\ Head(mq).pc = "stop:unregister"
    /\ StopCleanup(Head(mq).inst, Tail(mq), Head(mq).info, Head(mq).caller)
    /\ UNCHANGED emitting

\* stop() resumes after await this._cleanup()
ResumeStopCleanup ==
    /\ Alive
    /\ mq # <<>>
    /\ Head(mq).pc = "stop:cleanup"
    /\ IF "cleanup" \in svc[Head(mq).inst].faults
       THEN StopThrow(Head(mq).inst, Tail(mq), Head(mq).info, Head(mq).caller)
       ELSE StopFinish(Head(mq).inst, Tail(mq), Head(mq).caller)
    /\ UNCHANGED emitting

(***************************************************************************)
(* Services of one process on the registry of the process.                 *)
(***************************************************************************)
InitService ==
    /\ RegistryInit
    /\ \E o1 \in ServiceOptions, o2 \in FactoryOptions :
          svc = [s \in Instances |-> IF s = "s1" THEN NewService(o1) ELSE NewService(o2)]
    /\ mq = <<>>
    /\ SERVICE_HOST \in {NULL, "10.0.0.5"}
    /\ ProcessInit

\* the clock advances by one unit, between macrotasks
TickService ==
    /\ now < MaxUptime
    /\ Tick

NextService ==
    \/ \E s \in Instances : StartCall(s)
    \/ ResumeStartBroker
    \/ ResumeStartRegistry
    \/ ResumeStartRejected
    \/ \E s \in Instances : StopCall(s)
    \/ ResumeStopUnregister
    \/ ResumeStopCleanup
    \/ Sweep
    \/ TickService

SpecService == InitService /\ [][NextService]_vars

(***************************************************************************)
(* The process events of _registerProcessEvents().  process.on adds one    *)
(* listener per event at each call; an event calls its listeners in the    *)
(* order they were added, each up to its first await, before any           *)
(* microtask runs.  The listeners of SIGTERM and SIGINT exit with 0, those *)
(* of uncaughtException and unhandledRejection with 1.                     *)
(***************************************************************************)
Signals == {"SIGTERM", "SIGINT"}

\* the calls an event makes: the listener of each installation with its code
Emit(code) == [i \in DOMAIN listeners |-> [inst |-> listeners[i], code |-> code]]

\* SIGTERM or SIGINT is delivered, between macrotasks
Signal(sig) ==
    /\ Alive
    /\ mq = <<>>
    /\ listeners # <<>>
    /\ emitting' = Emit(0)
    /\ ret' = Result("signal", <<sig>>, "null", NULL, "received, shutting down gracefully")
    /\ UNCHANGED <<services, now, timer, nextId, svc, mq, SERVICE_HOST,
                   listeners, rejected, exitCode, chanVars, facVars>>

\* an exception no code catches reaches the process, between macrotasks
UncaughtException ==
    /\ Alive
    /\ mq = <<>>
    /\ listeners # <<>>
    /\ emitting' = Emit(1)
    /\ ret' = Result("uncaughtException", <<>>, "null", NULL, "Uncaught exception")
    /\ UNCHANGED <<services, now, timer, nextId, svc, mq, SERVICE_HOST,
                   listeners, rejected, exitCode, chanVars, facVars>>

\* a rejected promise that nothing handles is reported once the microtask
\* queue is empty
UnhandledRejection ==
    /\ Alive
    /\ mq = <<>>
    /\ rejected > 0
    /\ listeners # <<>>
    /\ emitting' = Emit(1)
    /\ rejected' = rejected - 1
    /\ ret' = Result("unhandledRejection", <<>>, "null", NULL,
                     "Unhandled promise rejection")
    /\ UNCHANGED <<services, now, timer, nextId, svc, mq, SERVICE_HOST,
                   listeners, exitCode, chanVars, facVars>>

\* the event calls its next listener: the handler calls this.stop() and
\* suspends at the await of lines 294, 300, 307 and 314
Dispatch ==
    /\ exitCode = -1
    /\ emitting # <<>>
    /\ StopBody(Head(emitting).inst, mq, Head(emitting).code)
    /\ emitting' = Tail(emitting)

\* a handler resumes after await this.stop(): process.exit(code)
ResumeHandler ==
    /\ Alive
    /\ mq # <<>>
    /\ Head(mq).pc = "handler:exit"
    /\ exitCode' = Head(mq).caller
    /\ mq' = Tail(mq)
    /\ ret' = Result("exit", <<Head(mq).inst>>, "code", NumToString(Head(mq).caller), "")
    /\ UNCHANGED <<services, now, timer, nextId, svc, SERVICE_HOST,
                   listeners, emitting, rejected, chanVars, facVars>>

\* services without a broker connection, by pairs
ProcessOptions ==
    { o \in ServiceOptions : ~o.broker /\ o.port > 0 /\ "register" \notin o.faults }

InitProcess ==
    /\ RegistryInit
    /\ \E o1 \in ProcessOptions, o2 \in FactoryOptions :
          svc = [s \in Instances |-> IF s = "s1" THEN NewService(o1) ELSE NewService(o2)]
    /\ mq = <<>>
    /\ SERVICE_HOST = NULL
    /\ ProcessInit

\* the process runs until process.exit; callers start and stop services
\* while no shutdown is under way, and an event calls all its listeners
\* before anything else runs
NextProcess ==
    \/ \E s \in Instances : StartCall(s)
    \/ ResumeStartRegistry
    \/ \E s \in Instances : StopCall(s)
    \/ ResumeStopUnregister
    \/ ResumeStopCleanup
    \/ \E sig \in Signals : Signal(sig)
    \/ UncaughtException
    \/ UnhandledRejection
    \/ Dispatch
    \/ ResumeHandler

SpecProcess == InitProcess /\ [][NextProcess]_vars

\* what the event loop has to run
loopVars == <<mq, emitting, rejected, exitCode>>

\* the event loop of a process that has not exited keeps running what is
\* due: the listeners of an event, the microtasks, the report of rejections
SpecProcessFair ==
    /\ SpecProcess
    /\ WF_loopVars(Dispatch)
    /\ WF_loopVars(ResumeStartRegistry)
    /\ WF_loopVars(ResumeStopUnregister)
    /\ WF_loopVars(ResumeStopCleanup)
    /\ WF_loopVars(ResumeHandler)
    /\ WF_loopVars(UnhandledRejection)

(***************************************************************************)
(* consumeFromQueue() on the channel of the broker.  The channel keeps the *)
(* messages of the queue that are ready, in order, and the deliveries that *)
(* wait for an acknowledgement; a message that is rejected with requeue    *)
(* goes back to the head of the queue, marked as redelivered.              *)
(***************************************************************************)
Msgs == {"m1", "m2"}

\* what the callback given to consumeFromQueue does with each message: its
\* promise resolves ("ok") or rejects ("fail") some time after the call, or
\* the call itself throws ("throw")
Callbacks ==
    { [m \in Msgs |-> "ok"], [m \in Msgs |-> "fail"],
      [m \in Msgs |-> IF m = "m1" THEN "fail" ELSE "ok"],
      [m \in Msgs |-> IF m = "m1" THEN "throw" ELSE "ok"] }

\* no consumer is subscribed
NoConsumer == [owner |-> "", callback |-> ""]

Subscribed == consumer.owner # ""

\* the messages the channel holds
Queued == {ready[i].id : i \in DOMAIN ready}

InFlight == {d.id : d \in unacked}

\* a message is published to the queue
Publish(m) ==
    /\ Alive
    /\ m \notin Queued \cup InFlight
    /\ ready' = Append(ready, [id |-> m, redelivered |-> FALSE])
    /\ ret' = Result("publish", <<m>>, "null", NULL, "")
    /\ UNCHANGED <<services, now, timer, nextId, svc, mq, SERVICE_HOST,
                   listeners, procVars, unacked, consumer, deliveryTag, facVars>>

\* consumeFromQueue(), lines 222-265: without a channel it throws, with one
\* it subscribes the callback of lines 233-260
ConsumeFromQueue(s, callback) ==
    /\ Alive
    /\ IF ~svc[s].broker
       THEN /\ ret' = Result("consumeFromQueue", <<s>>, "thrown",
                             "Message broker channel not available",
                             "Failed to consume from queue")
            /\ UNCHANGED consumer
       ELSE /\ ~Subscribed
            /\ consumer' = [owner |-> s, callback |-> callback]
            /\ ret' = Result("consumeFromQueue", <<s>>, "returned", NULL,
                             "Consuming from queue")
    /\ UNCHANGED <<services, now, timer, nextId, svc, mq, SERVICE_HOST,
                   listeners, procVars, ready, unacked, deliveryTag, facVars>>

\* channel.ack(msg): the delivery is settled and the message is gone
Ack(id) ==
    /\ unacked' = {d \in unacked : d.id # id}
    /\ ready' = ready
    /\ ret' = Result("ack", <<id>>, "null", NULL, "")

\* a nack that drops the message
Nack_drop(id, allUpTo, requeue) ==
    /\ unacked' = {d \in unacked : d.id # id /\ ~allUpTo}
    /\ ready' = ready
    /\ ret' = Result("nack", <<id>>, "null", NULL, "Error processing message")

\* channel.nack(msg, false, true): the delivery is settled and, with
\* requeue, the message is back in the queue
Nack(id, allUpTo, requeue) ==
    /\ unacked' = {d \in unacked : d.id # id /\ ~allUpTo}
    /\ ready' = IF requeue THEN <<[id |-> id, redelivered |-> TRUE]>> \o ready
                ELSE ready
    /\ ret' = Result("nack", <<id>>, "null", NULL, "Error processing message")

\* the channel delivers the message at the head of the queue: the callback
\* of lines 233-260 runs up to await callback(parsedContent, msg)
Deliver ==
    /\ Alive
    /\ mq = <<>>
    /\ Subscribed
    /\ ready # <<>>
    /\ LET m == Head(ready)
       IN  IF consumer.callback[m.id] = "throw"
           THEN /\ unacked' = unacked
                /\ ready' = <<[id |-> m.id, redelivered |-> TRUE]>> \o Tail(ready)
                /\ ret' = Result("nack", <<m.id>>, "threw", NULL,
                                 "Error processing message")
           ELSE /\ unacked' = unacked \cup
                                  {[id |-> m.id, redelivered |-> m.redelivered,
                                    owner |-> consumer.owner,
                                    promise |-> consumer.callback[m.id],
                                    invoked |-> 1, state |-> "handling"]}
                /\ ready' = Tail(ready)
                /\ ret' = Result("deliver", <<m.id>>, "pending", NULL, "")
    /\ UNCHANGED <<services, now, timer, nextId, svc, mq, SERVICE_HOST,
                   listeners, procVars, consumer, facVars>>
    /\ deliveryTag' = (deliveryTag + 1) % 2

\* the promise of the callback settles; the consumer callback resumes in a
\* microtask
HandlerSettles(id) ==
    /\ Alive
    /\ \E d \in unacked :
          /\ d.id = id
          /\ d.state = "handling"
          /\ LET outcome == IF d.promise = "ok" THEN "resolved" ELSE "rejected"
             IN  unacked' = (unacked \ {d}) \cup {[d EXCEPT !.state = outcome]}
          /\ mq' = Append(mq, [Continuation(d.owner, "consume:settled")
                                  EXCEPT !.msg = id])
    /\ ret' = Result("handler", <<id>>, "settled", NULL, "")
    /\ UNCHANGED <<services, now, timer, nextId, svc, SERVICE_HOST,
                   listeners, procVars, ready, consumer, deliveryTag, facVars>>

\* the consumer callback without its catch: the rejection of the callback
\* rejects the promise of the consumer callback
ResumeConsume_noCatch ==
    /\ Alive
    /\ mq # <<>>
    /\ Head(mq).pc = "consume:settled"
    /\ \E d \in unacked :
          /\ d.id = Head(mq).msg
          /\ IF d.state = "resolved"
             THEN Ack(d.id) /\ UNCHANGED procVars
             ELSE /\ rejected' = IF rejected < MaxRejected THEN rejected + 1 ELSE rejected
                  /\ ret' = Result("consume", <<d.id>>, "thrown", NULL, "")
                  /\ UNCHANGED <<ready, unacked, emitting, exitCode>>
    /\ mq' = Tail(mq)
    /\ UNCHANGED <<services, now, timer, nextId, svc, SERVICE_HOST,
                   listeners, consumer, deliveryTag, facVars>>

\* the consumer callback acknowledging whatever the callback did
ResumeConsume_ackAlways ==
    /\ Alive
    /\ mq # <<>>
    /\ Head(mq).pc = "consume:settled"
    /\ \E d \in unacked :
          /\ d.id = Head(mq).msg
          /\ Ack(d.id)
    /\ mq' = Tail(mq)
    /\ UNCHANGED <<services, now, timer, nextId, svc, SERVICE_HOST,
                   listeners, procVars, consumer, deliveryTag, facVars>>

\* the consumer callback resumes after await callback(): lines 254 or 256-258
ResumeConsume ==
    /\ Alive
    /\ mq # <<>>
    /\ Head(mq).pc = "consume:settled"
    /\ \E d \in unacked :
          /\ d.id = Head(mq).msg
          /\ IF d.state = "resolved" THEN Ack(d.id) ELSE Nack(d.id, FALSE, TRUE)
    /\ mq' = Tail(mq)
    /\ UNCHANGED <<services, now, timer, nextId, svc, SERVICE_HOST,
                   listeners, procVars, consumer, deliveryTag, facVars>>

\* the server cancels the consumer: the callback is called with null
CancelNotice ==
    /\ Alive
    /\ mq = <<>>
    /\ Subscribed
    /\ consumer' = NoConsumer
    /\ ret' = Result("cancel", <<>>, "null", NULL, "Consumer cancelled by server")
    /\ UNCHANGED <<services, now, timer, nextId, svc, mq, SERVICE_HOST,
                   listeners, procVars, ready, unacked, deliveryTag, facVars>>

\* a service with a channel and one without
ConsumerOptions == {o \in ServiceOptions : o.broker /\ o.faults = {}}

InitConsumer ==
    /\ RegistryInit
    /\ \E o1 \in ConsumerOptions, o2 \in FactoryOptions :
          svc = [s \in Instances |-> IF s = "s1" THEN NewService(o1) ELSE NewService(o2)]
    /\ mq = <<>>
    /\ SERVICE_HOST = NULL
    /\ ProcessInit

NextConsumer ==
    \/ StartCall("s1")
    \/ ResumeStartBroker
    \/ ResumeStartRegistry
    \/ \E s \in Instances, callback \in Callbacks : ConsumeFromQueue(s, callback)
    \/ \E m \in Msgs : Publish(m)
    \/ Deliver
    \/ \E m \in Msgs : HandlerSettles(m)
    \/ ResumeConsume
    \/ CancelNotice

SpecConsumer == InitConsumer /\ [][NextConsumer]_vars

\* the delivery of message m
DeliverOf(m) ==
    /\ ready # <<>>
    /\ Head(ready).id = m
    /\ Deliver

\* what the event loop and the channel change
consumeVars == <<mq, ready, unacked, deliveryTag>>

\* The event loop runs every microtask; the promise of a callback settles;
\* the channel, which consume() subscribes without a prefetch limit, pushes
\* every message that is ready, and its callback runs each time the
\* microtask queue has drained.
SpecConsumerFair ==
    /\ SpecConsumer
    /\ WF_consumeVars(ResumeConsume)
    /\ WF_consumeVars(ResumeStartBroker)
    /\ WF_consumeVars(ResumeStartRegistry)
    /\ \A m \in Msgs : WF_consumeVars(HandlerSettles(m))
    /\ \A m \in Msgs : SF_consumeVars(DeliverOf(m))

(***************************************************************************)
(* registerQueue, registerExchange, publishToQueue and consumeFromQueue of *)
(* BaseService on the channel the service was given.  A table of a service *)
(* is an object literal: a lookup by name also finds what every object     *)
(* inherits, such as its constructor.  A call on the channel that the code *)
(* awaits settles later, by resolving or by rejecting.                     *)
(***************************************************************************)
\* Number of operations called on the channel.
MaxOps == 3

\* Number of calls suspended at an await of the channel.
MaxIo == 2

QueueNames == {"api.requests", "constructor"}

ExchangeNames == {"events"}

\* the properties an object literal inherits from Object.prototype
ObjectPrototype == {"constructor"}

\* table[name] is truthy
Truthy(table, name) == name \in table \/ name \in ObjectPrototype

\* everything but the tables and the channel calls
queueFrame == <<services, now, timer, nextId, svc, mq, SERVICE_HOST,
                listeners, procVars, chanVars, connVars>>

ChannelOp(op, name, s) == [op |-> op, name |-> name, by |-> s]

Suspended(s, fn, name, pc) == [inst |-> s, fn |-> fn, name |-> name, pc |-> pc]

\* the sequence without its i-th element
Without(seq, i) == SubSeq(seq, 1, i - 1) \o SubSeq(seq, i + 1, Len(seq))

\* lines 152-154, 174-176, 196-198, 222-224: the error of a service without
\* a channel, logged and thrown again by the catch of the function
NoChannel(s, fn, log) ==
    /\ ret' = Result(fn, <<s>>, "thrown", "Message broker channel not available", log)
    /\ UNCHANGED <<queues, exchanges, chanOps, io>>

\* a function calls channel.assertQueue and awaits it, line 156
AssertQueue(s, fn, name) ==
    /\ Len(chanOps) < MaxOps
    /\ Len(io) < MaxIo
    /\ chanOps' = Append(chanOps, ChannelOp("assertQueue", name, s))
    /\ io' = Append(io, Suspended(s, fn, name, "assertQueue"))
    /\ ret' = Result(fn, <<s>>, "pending", NULL, "")
    /\ UNCHANGED <<queues, exchanges>>

\* registerQueue that proceeds without a channel
RegisterQueueCall_noChannelTest(s, name) ==
    /\ Alive
    /\ AssertQueue(s, "registerQueue", name)
    /\ UNCHANGED queueFrame

\* registerQueue(queueName), lines 150-156
RegisterQueueCall(s, name) ==
    /\ Alive
    /\ IF ~svc[s].broker
       THEN NoChannel(s, "registerQueue", "Failed to register queue")
       ELSE AssertQueue(s, "registerQueue", name)
    /\ UNCHANGED queueFrame

\* registerExchange(exchangeName), lines 172-181, up to the await
RegisterExchangeCall(s, name) ==
    /\ Alive
    /\ IF ~svc[s].broker
       THEN NoChannel(s, "registerExchange", "Failed to register exchange")
       ELSE /\ Len(chanOps) < MaxOps
            /\ Len(io) < MaxIo
            /\ chanOps' = Append(chanOps, ChannelOp("assertExchange", name, s))
            /\ io' = Append(io, Suspended(s, "registerExchange", name, "assertExchange"))
            /\ ret' = Result("registerExchange", <<s>>, "pending", NULL, "")
            /\ UNCHANGED <<queues, exchanges>>
    /\ UNCHANGED queueFrame

\* publishToQueue, lines 205-213: channel.sendToQueue
SendToQueue(s, name, ops) ==
    /\ chanOps' = Append(ops, ChannelOp("sendToQueue", name, s))
    /\ ret' = Result("publishToQueue", <<s>>, "returned", "true",
                     "Published message to queue")

\* consumeFromQueue, lines 231-262: channel.consume, awaited
Consume(s, name, ops, suspended) ==
    /\ chanOps' = Append(ops, ChannelOp("consume", name, s))
    /\ io' = Append(suspended, Suspended(s, "consumeFromQueue", name, "consume"))
    /\ ret' = Result("consumeFromQueue", <<s>>, "pending", NULL, "")

\* publishToQueue(queueName, message), lines 194-213, up to its first await
PublishToQueueCall(s, name) ==
    /\ Alive
    /\ IF ~svc[s].broker
       THEN NoChannel(s, "publishToQueue", "Failed to publish to queue")
       ELSE IF Truthy(queues[s], name)
            THEN /\ Len(chanOps) < MaxOps
                 /\ SendToQueue(s, name, chanOps)
                 /\ UNCHANGED <<queues, exchanges, io>>
            ELSE AssertQueue(s, "publishToQueue", name)
    /\ UNCHANGED queueFrame

\* consumeFromQueue(queueName, callback), lines 220-262, up to its first
\* await
ConsumeCall(s, name) ==
    /\ Alive
    /\ IF ~svc[s].broker
       THEN NoChannel(s, "consumeFromQueue", "Failed to consume from queue")
       ELSE IF Truthy(queues[s], name)
            THEN /\ Len(chanOps) < MaxOps
                 /\ Len(io) < MaxIo
                 /\ Consume(s, name, chanOps, io)
                 /\ UNCHANGED <<queues, exchanges>>
            ELSE AssertQueue(s, "consumeFromQueue", name)
    /\ UNCHANGED queueFrame

\* the error of a channel call, logged and thrown again by each catch on
\* the way out
ChannelThrows(c, i) ==
    /\ io' = Without(io, i)
    /\ ret' = Result(c.fn, <<c.inst>>, "thrown", "channel error",
                     IF c.pc = "assertExchange" THEN "Failed to register exchange"
                     ELSE IF c.pc = "consume" THEN "Failed to consume from queue"
                     ELSE "Failed to register queue")
    /\ UNCHANGED <<queues, exchanges, chanOps>>

\* channel.assertQueue settles: registerQueue records the queue, lines
\* 161-164, and its caller goes on: publishToQueue sends, consumeFromQueue
\* subscribes
AssertQueueSettles(i, ok) ==
    /\ Alive
    /\ i \in DOMAIN io
    /\ io[i].pc = "assertQueue"
    /\ LET c == io[i]
       IN  IF ~ok
           THEN ChannelThrows(c, i)
           ELSE /\ queues' = [queues EXCEPT ![c.inst] = @ \cup {c.name}]
                /\ exchanges' = exchanges
                /\ CASE c.fn = "registerQueue" ->
                          /\ chanOps' = chanOps
                          /\ io' = Without(io, i)
                          /\ ret' = Result("registerQueue", <<c.inst>>, "returned",
                                           c.name, "Registered queue")
                     [] c.fn = "publishToQueue" ->
                          /\ Len(chanOps) < MaxOps
                          /\ SendToQueue(c.inst, c.name, chanOps)
                          /\ io' = Without(io, i)
                     [] c.fn = "consumeFromQueue" ->
                          /\ Len(chanOps) < MaxOps
                          /\ Consume(c.inst, c.name, chanOps, Without(io, i))
    /\ UNCHANGED queueFrame

\* channel.assertExchange settles: lines 183-186
AssertExchangeSettles(i, ok) ==
    /\ Alive
    /\ i \in DOMAIN io
    /\ io[i].pc = "assertExchange"
    /\ LET c == io[i]
       IN  IF ~ok
           THEN ChannelThrows(c, i)
           ELSE /\ exchanges' = [exchanges EXCEPT ![c.inst] = @ \cup {c.name}]
                /\ io' = Without(io, i)
                /\ ret' = Result("registerExchange", <<c.inst>>, "returned",
                                 c.name, "Registered exchange")
                /\ UNCHANGED <<queues, chanOps>>
    /\ UNCHANGED queueFrame

\* channel.consume settles: lines 264-265
ConsumeSettles(i, ok) ==
    /\ Alive
    /\ i \in DOMAIN io
    /\ io[i].pc = "consume"
    /\ LET c == io[i]
       IN  IF ~ok
           THEN ChannelThrows(c, i)
           ELSE /\ io' = Without(io, i)
                /\ ret' = Result("consumeFromQueue", <<c.inst>>, "returned",
                                 "consumerTag", "Consuming from queue")
                /\ UNCHANGED <<queues, exchanges, chanOps>>
    /\ UNCHANGED queueFrame

\* a service with a channel and a service without one
InitQueues ==
    /\ RegistryInit
    /\ \E o1 \in ConsumerOptions, o2 \in FactoryOptions :
          svc = [s \in Instances |-> IF s = "s1" THEN NewService(o1) ELSE NewService(o2)]
    /\ mq = <<>>
    /\ SERVICE_HOST = NULL
    /\ ProcessInit

NextQueues ==
    \/ \E s \in Instances, name \in QueueNames : RegisterQueueCall(s, name)
    \/ \E s \in Instances, name \in ExchangeNames : RegisterExchangeCall(s, name)
    \/ \E s \in Instances, name \in QueueNames : PublishToQueueCall(s, name)
    \/ \E s \in Instances, name \in QueueNames : ConsumeCall(s, name)
    \/ \E i \in 1..MaxIo, ok \in BOOLEAN : AssertQueueSettles(i, ok)
    \/ \E i \in 1..MaxIo, ok \in BOOLEAN : AssertExchangeSettles(i, ok)
    \/ \E i \in 1..MaxIo, ok \in BOOLEAN : ConsumeSettles(i, ok)

SpecQueues == InitQueues /\ [][NextQueues]_vars

(***************************************************************************)
(* The broker connector (src/config/rabbitmq.js) and the service factory   *)
(* (src/services/ServiceFactory.js).  The process has one connector.       *)
(* conns is the broker's side: each connection is open or closed and has   *)
(* the listeners connect() put on it.  attempts are the connect() calls    *)
(* that are suspended at an await, or that have returned to a createService *)
(* call which has not resumed yet.  timers are the pending setTimeout      *)
(* callbacks of _reconnect, each with the time left until it fires.        *)
(***************************************************************************)

\* setTimeout(..., 5000) in _reconnect: one unit of the clock
reconnectDelay == 1

\* Number of instances in the table of the factory.
MaxInstances == 2

\* this.serviceTypes
serviceTypes == {"api-gateway", "api", "otp"}

\* the first argument of createService: nothing, two of the types, a name
\* the table does not have and a name every object inherits
TypeInputs == {"", "api-gateway", "api", "billing", "constructor"}

\* options.port of createService: no such property, the property with the
\* value undefined (0 stands for undefined), or a port
PortInputs == {[given |-> "absent", value |-> 0],
               [given |-> "undefined", value |-> 0],
               [given |-> "value", value |-> 4000]}

\* the calls of createService: every type without a port, and one service
\* with each of the port options
CreateInputs ==
    {<<type, opt>> \in TypeInputs \X PortInputs :
        opt.given = "absent" \/ type = "api"}

\* _getDefaultPort(type)
_getDefaultPort(type) ==
    CASE type = "api-gateway" -> 3000
      [] type = "api" -> 3001
      [] type = "otp" -> 3002
      [] OTHER -> 3000

\* the port of the instance: serviceOptions of createService, where the
\* spread of the options comes last, then the constructor of the service
\* class, where the spread comes last again, then the BaseService constructor
InstancePort(type, opt) ==
    LET computed == IF opt.value # 0 THEN opt.value ELSE _getDefaultPort(type)
        spread == IF opt.given = "absent" THEN computed ELSE opt.value
    IN  IF spread # 0 THEN spread ELSE 3000

\* `${type}-${Date.now()}`
ServiceId(type) == type \o "-" \o NumToString(now)

\* this.services[serviceId] = service
StoreInstance(table, e) ==
    IF e.key \in Keys(table)
    THEN [i \in DOMAIN table |-> IF table[i].key = e.key THEN e ELSE table[i]]
    ELSE Append(table, e)

\* the open connections
Open == {c \in ConnIds : conns[c].open}

\* the connect() calls suspended at amqp.connect or at a createChannel that
\* will fail, the reconnect timers and the open connections: each of them is
\* followed by a connection or by another connect() call
Chains ==
    Cardinality(Open) + Len(timers)
    + Cardinality({i \in DOMAIN attempts :
                     \/ attempts[i].pc = "amqp.connect"
                     \/ /\ attempts[i].pc = "createChannel"
                        /\ attempts[i].conn = Gone})

\* the connect() calls that wait for a channel of connection c
Waiting(c) ==
    Cardinality({i \in DOMAIN attempts :
                   attempts[i].pc = "createChannel" /\ attempts[i].conn = c})

\* a new connection object
Fresh ==
    CHOOSE c \in ConnIds :
        /\ ~conns[c].open
        /\ \A d \in ConnIds : ~conns[d].open => c <= d

\* a connect() call at its first await, made by createService(type, opt) or
\* by the timer of _reconnect (caller "timer")
Attempt(pc, conn, caller, type, opt) ==
    [pc |-> pc, conn |-> conn, caller |-> caller, type |-> type, opt |-> opt]

NoOpt == [given |-> "absent", value |-> 0]

factoryFrame == <<services, timer, nextId, svc, mq, SERVICE_HOST, listeners,
                  procVars, chanVars, queueVars>>

\* what is known after connect() has run up to its first await: the call
\* has returned or is pending, and createService is pending in either case
ConnectCalled(caller, type, opt, kind, log) ==
    IF caller = "createService"
    THEN Result("createService", <<type, opt.given>>, "pending", NULL, log)
    ELSE Result("connect", <<caller>>, kind, NULL, log)

\* connect() without the test of the process arguments
Connect_noArgvTest(caller, type, opt) ==
    /\ attempts' = Append(attempts,
                          Attempt("amqp.connect", NoConn, caller, type, opt))
    /\ ret' = ConnectCalled(caller, type, opt, "pending", "")

\* connect() up to its first await, lines 38-46: nothing in the process of
\* the gateway, where the call returns at once
Connect(caller, type, opt) ==
    IF argv = "-s=api-gateway"
    THEN /\ attempts' = IF caller = "createService"
                        THEN Append(attempts,
                                    Attempt("returned", NoConn, caller, type, opt))
                        ELSE attempts
         /\ ret' = ConnectCalled(caller, type, opt, "returned",
                                 "API Gateway service detected, skipping RabbitMQ connection")
    ELSE /\ attempts' = Append(attempts,
                               Attempt("amqp.connect", NoConn, caller, type, opt))
         /\ ret' = ConnectCalled(caller, type, opt, "pending", "")

\* the rest of createService once the broker step is over, lines 55-78
Construct(type, opt, conn, chan) ==
    IF type \notin serviceTypes
    THEN /\ ret' = Result("createService", <<type, opt.given>>, "thrown",
                          "TypeError", "Failed to create service")
         /\ UNCHANGED instances
    ELSE LET e == [key |-> ServiceId(type), type |-> type,
                   port |-> InstancePort(type, opt),
                   connection |-> conn, channel |-> chan]
         IN  /\ instances' = StoreInstance(instances, e)
             /\ ret' = Result("createService", <<type, opt.given>>, "returned",
                              e.key, "Created service instance")

\* the types for which _initializeMessageBroker calls connect(), lines 148-153
CallsConnect(type) ==
    type # "" /\ Truthy(serviceTypes, type) /\ type # "api-gateway"

\* the createService calls that have not returned
Creating == Cardinality({i \in DOMAIN attempts : attempts[i].caller = "createService"})

\* createService(type, options) up to its first await, lines 40-52.  The
\* name of the type is looked up in an object literal, which finds the names
\* of Object.prototype as well.
CreateService(type, opt) ==
    /\ now < MaxUptime
    /\ Len(instances) + Creating < MaxInstances
    /\ IF type = ""
       THEN /\ ret' = Result("createService", <<type, opt.given>>, "thrown",
                             "Service type is required", "Failed to create service")
            /\ UNCHANGED <<instances, attempts>>
       ELSE IF ~Truthy(serviceTypes, type)
       THEN /\ ret' = Result("createService", <<type, opt.given>>, "thrown",
                             "Unsupported service type", "Failed to create service")
            /\ UNCHANGED <<instances, attempts>>
       ELSE IF type = "api-gateway"
       THEN /\ Construct(type, opt, NoConn, NoConn)
            /\ UNCHANGED attempts
       ELSE /\ argv # "-s=api-gateway" => Chains < MaxConns
            /\ Connect("createService", type, opt)
            /\ UNCHANGED instances
    /\ closeCalled' = IF CallsConnect(type) THEN FALSE ELSE closeCalled
    /\ UNCHANGED <<now, connection, channel, conns, timers, reachable, argv,
                   factoryFrame>>

\* connect() returns: createService goes on from its await in a later step
ConnectReturns(i) ==
    IF attempts[i].caller = "createService"
    THEN [attempts EXCEPT ![i].pc = "returned", ![i].conn = NoConn]
    ELSE Without(attempts, i)

\* RabbitmqConfig.connect() called on the connector of the process
ConnectCall ==
    /\ Len(attempts) < MaxPending
    /\ argv # "-s=api-gateway" => Chains < MaxConns
    /\ Connect("call", "", NoOpt)
    /\ closeCalled' = FALSE
    /\ UNCHANGED <<now, connection, channel, conns, timers, reachable, argv,
                   instances, factoryFrame>>

\* _reconnect(), lines 72-79
_reconnect(ts) == Append(ts, reconnectDelay)

\* the catch of connect() throwing what it caught
ConnectFails_rethrow(i) ==
    /\ timers' = timers
    /\ attempts' = Without(attempts, i)
    /\ ret' = Result("connect", <<attempts[i].caller>>, "thrown", NULL,
                     "Failed to connect to RabbitMQ")

\* the catch of connect(), lines 62-65: the call logs, schedules another
\* call and returns
ConnectFails(i) ==
    /\ timers' = _reconnect(timers)
    /\ attempts' = ConnectReturns(i)
    /\ ret' = Result("connect", <<attempts[i].caller>>, "returned", NULL,
                     "Failed to connect to RabbitMQ")

\* amqp.connect(this.url) settles, lines 46-47: a connection of the broker
\* when the broker can be reached, which the connector takes as its own and
\* asks for a channel
AmqpConnectSettles(i) ==
    /\ i \in DOMAIN attempts
    /\ attempts[i].pc = "amqp.connect"
    /\ IF reachable
       THEN /\ conns' = [conns EXCEPT ![Fresh] = [open |-> TRUE, handlers |-> 0,
                                                     chan |-> FALSE]]
            /\ connection' = Fresh
            /\ attempts' = [attempts EXCEPT ![i].pc = "createChannel",
                                            ![i].conn = Fresh]
            /\ ret' = Result("connect", <<attempts[i].caller>>, "pending", NULL, "")
            /\ UNCHANGED timers
       ELSE /\ ConnectFails(i)
            /\ UNCHANGED <<conns, connection>>
    /\ UNCHANGED <<now, channel, reachable, argv, instances, closeCalled, factoryFrame>>

\* createChannel() settles, lines 47-61: the channel of the connection that
\* was asked for it, and the two listeners on the connection the connector
\* has at that time
CreateChannelSettles(i) ==
    /\ i \in DOMAIN attempts
    /\ attempts[i].pc = "createChannel"
    /\ IF attempts[i].conn \in Open
       THEN /\ channel' = attempts[i].conn
            /\ conns' = LET made == [conns EXCEPT ![attempts[i].conn].chan = TRUE]
                        IN  IF connection \in Open
                            THEN [made EXCEPT ![connection].handlers = @ + 1]
                            ELSE made
            /\ attempts' = ConnectReturns(i)
            /\ ret' = Result("connect", <<attempts[i].caller>>, "returned", NULL,
                             "Connected to RabbitMQ")
            /\ UNCHANGED timers
       ELSE /\ ConnectFails(i)
            /\ UNCHANGED <<conns, channel>>
    /\ UNCHANGED <<now, connection, reachable, argv, instances, closeCalled, factoryFrame>>

\* createService resumes after _initializeMessageBroker, lines 52-78, 155-160
ResumeCreate(i) ==
    /\ i \in DOMAIN attempts
    /\ attempts[i].pc = "returned"
    /\ now < MaxUptime
    /\ Construct(attempts[i].type, attempts[i].opt, connection, channel)
    /\ attempts' = Without(attempts, i)
    /\ UNCHANGED <<now, connection, channel, conns, timers, reachable, argv,
                   closeCalled, factoryFrame>>

\* a reference to connection c once c is closed
Drop(ref, c) == IF ref = c THEN Gone ELSE ref

\* the instances of the factory once connection c has closed: those that
\* were constructed with c or its channel hold a closed object
DropHeld(c) ==
    [i \in DOMAIN instances |->
        [instances[i] EXCEPT !.connection = Drop(@, c), !.channel = Drop(@, c)]]

\* the broker drops connection c while it cannot be reached.  The client
\* library emits 'close', or 'error' and then 'close'; each listener of
\* lines 52-61 calls _reconnect().
Lost(c, events) ==
    /\ c \in Open
    /\ ~reachable
    /\ Chains - 1 + Waiting(c) + conns[c].handlers * events <= MaxConns
    /\ conns' = [conns EXCEPT ![c] = Closed]
    /\ connection' = Drop(connection, c)
    /\ channel' = Drop(channel, c)
    /\ attempts' = [i \in DOMAIN attempts |->
                       [attempts[i] EXCEPT !.conn = Drop(@, c)]]
    /\ timers' = timers \o [k \in 1..(conns[c].handlers * events) |-> reconnectDelay]
    /\ ret' = Result("lost", <<NumToString(events)>>, "returned",
                     NULL, IF conns[c].handlers > 0
                           THEN "RabbitMQ connection closed, attempting to reconnect..."
                           ELSE "")
    /\ instances' = DropHeld(c)
    /\ UNCHANGED <<now, reachable, argv, closeCalled, factoryFrame>>

\* a timer of _reconnect fires, line 74: this.connect()
TimerFires(i) ==
    /\ i \in DOMAIN timers
    /\ timers[i] = 0
    /\ \A j \in 1..(i - 1) : timers[j] # 0
    /\ timers' = Without(timers, i)
    /\ Connect("timer", "", NoOpt)
    /\ UNCHANGED <<now, connection, channel, conns, reachable, argv, instances,
                   closeCalled, factoryFrame>>

\* one unit of time passes; the timers that are due fire first
TickConnector ==
    /\ \A i \in DOMAIN timers : timers[i] > 0
    /\ timers # <<>> \/ now < MaxUptime
    /\ timers' = [i \in DOMAIN timers |-> timers[i] - 1]
    /\ now' = IF now < MaxUptime THEN now + 1 ELSE now
    /\ ret' = Result("tick", <<>>, "returned", NULL, "")
    /\ UNCHANGED <<connection, channel, conns, attempts, reachable, argv,
                   instances, closeCalled, factoryFrame>>

\* the broker goes away
BrokerDown ==
    /\ reachable
    /\ reachable' = FALSE
    /\ ret' = Result("broker", <<>>, "returned", NULL, "")
    /\ UNCHANGED <<now, connection, channel, conns, timers, attempts, argv,
                   instances, closeCalled, factoryFrame>>

\* the broker comes back
BrokerUp ==
    /\ ~reachable
    /\ reachable' = TRUE
    /\ ret' = Result("broker", <<>>, "returned", NULL, "")
    /\ UNCHANGED <<now, connection, channel, conns, timers, attempts, argv,
                   instances, closeCalled, factoryFrame>>

\* new ServiceFactory() in a process started for the gateway or for another
\* service, with a broker that is up or down for as long as the factory is
\* used; SpecConnector has the broker going away and coming back
InitFactory ==
    /\ RegistryInit
    /\ svc = <<>>
    /\ mq = <<>>
    /\ SERVICE_HOST = NULL
    /\ EventsInit
    /\ QueueInit
    /\ ConnectorInit
    /\ reachable \in BOOLEAN
    /\ argv \in {"-s=api-gateway", "-s=api"}
    /\ instances = <<>>

NextFactory ==
    \/ \E in \in CreateInputs : CreateService(in[1], in[2])
    \/ \E i \in 1..(MaxPending + MaxConns) : AmqpConnectSettles(i)
    \/ \E i \in 1..(MaxPending + MaxConns) : CreateChannelSettles(i)
    \/ \E i \in 1..(MaxPending + MaxConns) : ResumeCreate(i)
    \/ \E i \in 1..MaxConns : TimerFires(i)
    \/ TickConnector

SpecFactory == InitFactory /\ [][NextFactory]_vars

\* the connector of a process that is not the gateway, its connect()
\* called as createService calls it, and a broker that drops connections
InitConnector ==
    /\ InitFactory
    /\ argv = "-s=api"

NextConnector ==
    \/ ConnectCall
    \/ \E i \in 1..(MaxPending + MaxConns) : AmqpConnectSettles(i)
    \/ \E i \in 1..(MaxPending + MaxConns) : CreateChannelSettles(i)
    \/ \E c \in ConnIds, events \in 1..2 : Lost(c, events)
    \/ \E i \in 1..MaxConns : TimerFires(i)
    \/ TickConnector
    \/ BrokerDown
    \/ BrokerUp

SpecConnector == InitConnector /\ [][NextConnector]_vars

\* the event loop runs every timer that is due and settles every pending
\* call of the client library, and time passes while a timer is pending
SpecConnectorFair ==
    /\ SpecConnector
    /\ \A i \in 1..(MaxPending + MaxConns) :
          /\ WF_attempts(AmqpConnectSettles(i))
          /\ WF_attempts(CreateChannelSettles(i))
    /\ \A i \in 1..MaxConns : WF_timers(TimerFires(i))
    /\ WF_timers(TickConnector)

(***************************************************************************)
(* close() of the broker connector, lines 85-97.  Closing a channel or a   *)
(* connection that is closed already throws in the client library, and     *)
(* the library emits 'close' on a connection when the closing handshake    *)
(* that close() started has completed.                                     *)
(***************************************************************************)
\* the channel made on connection c is open
ChannelOpen(c) == c \in ConnIds /\ conns[c].open /\ conns[c].chan

\* close() logs and returns
CloseReturns(log) == Result("close", <<>>, "returned", NULL, log)

\* the catch of close(), lines 94-96
CloseCaught == CloseReturns("Error closing RabbitMQ connection")

\* close() from line 90 on, the other suspended calls being rest
ConnectionClose(rest) ==
    IF connection = NoConn
    THEN /\ attempts' = rest
         /\ ret' = CloseReturns("Closed RabbitMQ connection")
    ELSE IF connection \in Open
    THEN /\ attempts' = Append(rest, Attempt("connection.close", connection,
                                             "close", "", NoOpt))
         /\ ret' = Result("close", <<>>, "pending", NULL, "")
    ELSE /\ attempts' = rest
         /\ ret' = CloseCaught

\* close() up to its first await, lines 85-91
CloseCall ==
    /\ Len(attempts) < MaxPending
    /\ closeCalled' = TRUE
    /\ IF channel # NoConn
       THEN IF ChannelOpen(channel)
            THEN /\ attempts' = Append(attempts, Attempt("channel.close", channel,
                                                         "close", "", NoOpt))
                 /\ ret' = Result("close", <<>>, "pending", NULL, "")
            ELSE /\ attempts' = attempts
                 /\ ret' = CloseCaught
       ELSE ConnectionClose(attempts)
    /\ UNCHANGED <<now, connection, channel, conns, timers, reachable, argv,
                   instances, factoryFrame>>

\* channel.close() settles, lines 88-91
ChannelCloseSettles(i) ==
    /\ i \in DOMAIN attempts
    /\ attempts[i].pc = "channel.close"
    /\ IF ChannelOpen(attempts[i].conn)
       THEN /\ conns' = [conns EXCEPT ![attempts[i].conn].chan = FALSE]
            /\ ConnectionClose(Without(attempts, i))
       ELSE /\ attempts' = Without(attempts, i)
            /\ ret' = CloseCaught
            /\ UNCHANGED conns
    /\ UNCHANGED <<now, connection, channel, timers, reachable, argv, instances,
                   closeCalled, factoryFrame>>

\* connection.close() settles, lines 91-93: the connection is closed and its
\* 'close' listeners of lines 52-55 run
ConnectionCloseSettles(i) ==
    /\ i \in DOMAIN attempts
    /\ attempts[i].pc = "connection.close"
    /\ LET c == attempts[i].conn
       IN  IF c \in Open
           THEN /\ Chains - 1 + Waiting(c) + conns[c].handlers <= MaxConns
                /\ conns' = [conns EXCEPT ![c] = Closed]
                /\ connection' = Drop(connection, c)
                /\ channel' = Drop(channel, c)
                /\ attempts' = Without([j \in DOMAIN attempts |->
                                          [attempts[j] EXCEPT !.conn = Drop(@, c)]], i)
                /\ timers' = timers \o [k \in 1..conns[c].handlers |-> reconnectDelay]
                /\ instances' = DropHeld(c)
                /\ ret' = CloseReturns("Closed RabbitMQ connection")
           ELSE /\ attempts' = Without(attempts, i)
                /\ ret' = CloseCaught
                /\ UNCHANGED <<conns, connection, channel, timers, instances>>
    /\ UNCHANGED <<now, reachable, argv, closeCalled, factoryFrame>>

\* a createService call of a caller that awaits each call and makes none
\* while the connector is reconnecting
CreateQuiet ==
    /\ attempts = <<>>
    /\ timers = <<>>
    /\ CreateService("api", NoOpt)

\* a process that creates api services, one at a time, while the broker
\* comes and goes: the factory, the connector and its reconnect timer
NextReconnect ==
    \/ CreateQuiet
    \/ \E i \in 1..(MaxPending + MaxConns) : AmqpConnectSettles(i)
    \/ \E i \in 1..(MaxPending + MaxConns) : CreateChannelSettles(i)
    \/ \E i \in 1..(MaxPending + MaxConns) : ResumeCreate(i)
    \/ \E c \in ConnIds, events \in 1..2 : Lost(c, events)
    \/ \E i \in 1..MaxConns : TimerFires(i)
    \/ TickConnector
    \/ BrokerDown
    \/ BrokerUp

SpecReconnect == InitConnector /\ [][NextReconnect]_vars

\* the connector with its three operations: connect(), the reconnect timer
\* and close()
NextShutdown ==
    \/ ConnectCall
    \/ \E i \in 1..(MaxPending + MaxConns) : AmqpConnectSettles(i)
    \/ \E i \in 1..(MaxPending + MaxConns) : CreateChannelSettles(i)
    \/ \E c \in ConnIds, events \in 1..2 : Lost(c, events)
    \/ \E i \in 1..MaxConns : TimerFires(i)
    \/ TickConnector
    \/ BrokerDown
    \/ BrokerUp
    \/ CloseCall
    \/ \E i \in 1..(MaxPending + MaxConns) : ChannelCloseSettles(i)
    \/ \E i \in 1..(MaxPending + MaxConns) : ConnectionCloseSettles(i)

SpecShutdown == InitConnector /\ [][NextShutdown]_vars

(***************************************************************************)
(* The concrete services: APIService (src/services/api/config/index.js)    *)
(* and OTPService (src/services/otp/index.js).  Both extend BaseService;   *)
(* start() awaits super.start(), then starts the HTTP listener and, with a *)
(* connection and a channel, sets up the queues; stop() closes the HTTP    *)
(* server, if this.server is set, and then awaits super.stop().  What      *)
(* super.start() throws and what super.stop() returns or throws is what    *)
(* the method of the concrete class lets through, after logging it.        *)
(***************************************************************************)
\* a concrete service: the fields of BaseService, the class, and
\* this.server: "none" while it is not set, otherwise the state of the
\* server object it refers to
NewHttpService(class, options) ==
    LET base == NewService(options)
    IN  [ f \in DOMAIN base \cup {"class", "server"} |->
            CASE f = "class" -> class
              [] f = "server" -> "none"
              [] OTHER -> base[f] ]

\* the options the factory gives the api service, with and without a broker
\* connection, and with a registry whose register() throws
ApiOptions ==
    { [name |-> "api", port |-> 3001, broker |-> FALSE, registry |-> TRUE,
       faults |-> {}],
      [name |-> "api", port |-> 3001, broker |-> TRUE, registry |-> TRUE,
       faults |-> {}],
      [name |-> "api", port |-> 3001, broker |-> FALSE, registry |-> TRUE,
       faults |-> {"register"}] }

\* the options the factory gives the otp service
OtpOptions ==
    { [name |-> "otp", port |-> 3002, broker |-> FALSE, registry |-> TRUE,
       faults |-> {}] }

\* config.queues of the api service
ApiQueues == [requests |-> "api.requests", responses |-> "api.responses"]

\* start() resumes after await super.start(), which has returned
Listening(s) == Continuation(s, "start:listen")

\* super.start() returns before its first await: the service is running
\* already, or it has neither a broker to initialize nor a registry to
\* register with
SuperStartReturns(s) ==
    \/ svc[s].isRunning
    \/ ~svc[s].broker /\ ~(svc[s].registry /\ svc[s].port > 0)

\* the message of the catch of the concrete start() and stop()
FailedTo(what, s) ==
    IF svc[s].class = "otp" THEN "Failed to " \o what \o " OTP service"
    ELSE "Failed to " \o what \o " API service"

\* a call of start() of a concrete service: super.start() up to its first
\* await
HttpStartCall(s) ==
    /\ Serving
    /\ Len(mq) < MaxPending
    /\ Installs < MaxInstalls
    /\ StartBody(s, IF SuperStartReturns(s) THEN Append(mq, Listening(s)) ELSE mq)

\* super.start() resumes after await this._initializeBroker()
HttpResumeStartBroker ==
    /\ Alive
    /\ mq # <<>>
    /\ Head(mq).pc = "start:broker"
    /\ LET s == Head(mq).inst
       IN  IF "broker" \in svc[s].faults
           THEN StartThrow(s, Tail(mq))
           ELSE StartRegister(s, IF svc[s].registry /\ svc[s].port > 0
                                 THEN Tail(mq)
                                 ELSE Append(Tail(mq), Listening(s)))

\* super.start() resumes after await this.registerWithRegistry() and
\* returns to the start() of the concrete class
HttpResumeStartRegistry ==
    /\ Alive
    /\ mq # <<>>
    /\ Head(mq).pc = "start:registry"
    /\ StartFinish(Head(mq).inst, Append(Tail(mq), Listening(Head(mq).inst)))

\* super.start() resumes with the error of registerWithRegistry()
HttpResumeStartRejected ==
    /\ Alive
    /\ mq # <<>>
    /\ Head(mq).pc = "start:rejected"
    /\ StartThrow(Head(mq).inst, Tail(mq))

\* start() after await super.start(): this.app.listen, then _setupQueues()
\* up to its first await.  OTPService never sets this.app, so the call of
\* listen raises a TypeError; the listener of the api service is started,
\* or the port is refused (listening is false)
HttpListen(listening) ==
    /\ Alive
    /\ mq # <<>>
    /\ Head(mq).pc = "start:listen"
    /\ LET s == Head(mq).inst
       IN  /\ mq' = Tail(mq)
           /\ IF svc[s].class = "otp"
              THEN /\ svc' = svc
                   /\ ret' = Result("start", <<s>>, "thrown", "TypeError",
                                    FailedTo("start", s))
                   /\ UNCHANGED queueVars
              ELSE /\ svc' = [svc EXCEPT ![s].server =
                                 IF listening THEN "listening" ELSE "failed"]
                   /\ IF svc[s].broker
                      THEN AssertQueue(s, "_setupQueues", ApiQueues.requests)
                      ELSE /\ ret' = Result("start", <<s>>, "returned", NULL,
                                            IF listening
                                            THEN "HTTP server running on port"
                                            ELSE "")
                           /\ UNCHANGED queueVars
    /\ UNCHANGED <<services, now, timer, nextId, SERVICE_HOST, listeners,
                   procVars, chanVars, connVars>>

\* a channel call of _setupQueues() settles: registerQueue records the
\* queue and the next call is made, or the error goes through the catch of
\* registerQueue or consumeFromQueue, of _setupQueues and of start()
SetupSettles(i, ok) ==
    /\ Alive
    /\ i \in DOMAIN io
    /\ io[i].fn = "_setupQueues"
    /\ LET c == io[i]
           s == io[i].inst
       IN  IF ~ok
           THEN /\ io' = Without(io, i)
                /\ ret' = Result("start", <<s>>, "thrown", "channel error",
                                 FailedTo("start", s))
                /\ UNCHANGED <<queues, exchanges, chanOps>>
           ELSE IF c.pc = "consume"
           THEN /\ io' = Without(io, i)
                /\ ret' = Result("start", <<s>>, "returned", NULL,
                                 "Message broker queues setup complete")
                /\ UNCHANGED <<queues, exchanges, chanOps>>
           ELSE /\ Len(chanOps) < MaxOps
                /\ queues' = [queues EXCEPT ![s] = @ \cup {c.name}]
                /\ exchanges' = exchanges
                /\ ret' = Result("_setupQueues", <<s>>, "pending", NULL,
                                 "Registered queue")
                /\ IF c.name = ApiQueues.requests
                   THEN /\ chanOps' = Append(chanOps,
                               ChannelOp("assertQueue", ApiQueues.responses, s))
                        /\ io' = Append(Without(io, i),
                               Suspended(s, "_setupQueues", ApiQueues.responses,
                                         "assertQueue"))
                   ELSE /\ chanOps' = Append(chanOps,
                               ChannelOp("consume", ApiQueues.responses, s))
                        /\ io' = Append(Without(io, i),
                               Suspended(s, "_setupQueues", ApiQueues.responses,
                                         "consume"))
    /\ UNCHANGED queueFrame

\* a call of stop() of a concrete service: this.server.close(callback) where
\* this.server is set, else super.stop().  A server that is listening stops
\* listening at once and calls back when it has closed; a server that is
\* not listening calls back with ERR_SERVER_NOT_RUNNING
HttpStopCall(s) ==
    /\ Serving
    /\ Len(mq) < MaxPending
    /\ IF svc[s].server # "none"
       THEN /\ Len(io) < MaxIo
            /\ io' = Append(io, Suspended(s, "stop",
                                IF svc[s].server = "listening" THEN "closed"
                                ELSE "ERR_SERVER_NOT_RUNNING", "server.close"))
            /\ svc' = [svc EXCEPT ![s].server =
                          IF @ = "listening" THEN "closing" ELSE @]
            /\ ret' = Result("stop", <<s>>, "pending", NULL, "")
            /\ UNCHANGED <<services, now, timer, nextId, mq, SERVICE_HOST,
                           listeners, procVars, chanVars, queues, exchanges,
                           chanOps, connVars>>
       ELSE /\ StopBody(s, mq, NoHandler)
            /\ UNCHANGED emitting

\* the callback of this.server.close: resolve() lets stop() go on to
\* super.stop(), reject(err) takes it to its catch, which throws the error
ServerCloseSettles(i) ==
    /\ Alive
    /\ i \in DOMAIN io
    /\ io[i].pc = "server.close"
    /\ LET s == io[i].inst
       IN  /\ io' = Without(io, i)
           /\ IF io[i].name = "closed"
              THEN /\ svc' = [svc EXCEPT ![s].server =
                                 IF @ = "closing" THEN "closed" ELSE @]
                   /\ mq' = Append(mq, Continuation(s, "stop:closed"))
                   /\ ret' = Result("stop", <<s>>, "pending", NULL, "HTTP server closed")
              ELSE /\ svc' = svc
                   /\ mq' = mq
                   /\ ret' = Result("stop", <<s>>, "thrown", io[i].name,
                                    FailedTo("stop", s))
    /\ UNCHANGED <<services, now, timer, nextId, SERVICE_HOST, listeners,
                   procVars, chanVars, queues, exchanges, chanOps, connVars>>

\* stop() resumes after the await of the close: super.stop() up to its
\* first await
ResumeServerClosed ==
    /\ Alive
    /\ mq # <<>>
    /\ Head(mq).pc = "stop:closed"
    /\ StopBody(Head(mq).inst, Tail(mq), NoHandler)
    /\ UNCHANGED emitting

\* an api service and an otp service, as the factory constructs them, on
\* the registry of the process
InitHttp ==
    /\ RegistryInit
    /\ \E o1 \in ApiOptions, o2 \in OtpOptions :
          svc = [s \in Instances |-> IF s = "s1" THEN NewHttpService("api", o1)
                                     ELSE NewHttpService("otp", o2)]
    /\ mq = <<>>
    /\ SERVICE_HOST = NULL
    /\ ProcessInit

NextHttp ==
    \/ \E s \in Instances : HttpStartCall(s)
    \/ HttpResumeStartBroker
    \/ HttpResumeStartRegistry
    \/ HttpResumeStartRejected
    \/ \E listening \in BOOLEAN : HttpListen(listening)
    \/ \E i \in 1..MaxIo, ok \in BOOLEAN : SetupSettles(i, ok)
    \/ \E s \in Instances : HttpStopCall(s)
    \/ \E i \in 1..MaxIo : ServerCloseSettles(i)
    \/ ResumeServerClosed
    \/ ResumeStopUnregister
    \/ ResumeStopCleanup

SpecHttp == InitHttp /\ [][NextHttp]_vars

TypeOK ==
    /\ now \in 0..MaxTime
    /\ nextId \in 0..MaxObjects
    /\ deliveryTag \in 0..1
    /\ \A i \in DOMAIN services : services[i].id < nextId

(***************************************************************************)
(* Properties of the registry store.  A triple is stored when the store    *)
(* has a property at the key of the triple, which is how register and      *)
(* unregister look it up.                                                  *)
(***************************************************************************)
IsStored(store, name, host, port) == _generateKey(name, host, port) \in Keys(store)

Triple(e) == <<e.name, e.host, e.port>>

Valid(name, host, port) ==
    ~(FalsyString(name) \/ FalsyString(host) \/ FalsyNumber(port))

\* the stored entries, as a set
Entries(store) == {store[i] : i \in DOMAIN store}

\* C1: in every state reached by register, unregister and sweep no two
\* stored entries have the same (name, host, port), and a register call on a
\* triple that is already stored keeps the number of entries and leaves the
\* entry with the time of that call as its timestamp.
C1_OneEntryPerTriple ==
    [][ /\ \A i, j \in DOMAIN services' :
              Triple(services'[i]) = Triple(services'[j]) => i = j
        /\ \A t \in Triples :
              ( /\ ret'.op = "register"
                /\ Valid(t[1], t[2], t[3])
                /\ IsStored(services, t[1], t[2], t[3])
                /\ \E metadata \in Metas : Register(t[1], t[2], t[3], metadata) )
              => /\ Len(services') = Len(services)
                 /\ Get(services', _generateKey(t[1], t[2], t[3])).timestamp = now
      ]_vars

\* a renewal of one of two stored entries, later than its registration
C1_Witness ==
    /\ ret.op = "register"
    /\ ret.log = "Service updated"
    /\ ret.val.timestamp > 0
    /\ Len(services) = 2

\* C2: findAll(name) returns, once each, exactly the stored entries of that
\* name whose age now - timestamp is at most timeout: an entry aged exactly
\* timeout is returned, an older one and one of another name are not.
C2_FindAllExact ==
    ret.op = "findAll" =>
        /\ Entries(ret.val) =
               {e \in Entries(services) :
                   e.name = ret.args[1] /\ now - e.timestamp <= timeout}
        /\ Cardinality(Entries(ret.val)) = Len(ret.val)

\* findAll returned an entry aged exactly timeout and left out a stored one
C2_Witness ==
    /\ ret.op = "findAll"
    /\ \E e \in Entries(ret.val) : now - e.timestamp = timeout
    /\ Len(ret.val) < Len(services)

\* C3: an entry leaves the store only by an unregister of its key or by a
\* sweep that runs when it is expired, so an entry that expired with no sweep
\* since is still stored; find and findAll never return an expired entry,
\* and getAll returns every stored entry whatever its age.
C3_StaleHiddenButStored ==
    [][ /\ \A e \in Entries(services) :
              (\A f \in Entries(services') : f.id # e.id)
              => \/ ret'.op = "unregister"
                 \/ ret'.op = "sweep" /\ now - e.timestamp > timeout
        /\ ret'.op = "findAll" =>
              \A e \in Entries(ret'.val) : ~(now' - e.timestamp > timeout)
        /\ ret'.op = "find" /\ ret'.kind = "entry" =>
              ~(now' - ret'.val.timestamp > timeout)
        /\ ret'.op = "getAll" => ret'.val = services'
      ]_vars

\* find returned nothing for the name of a stored entry that has expired
C3_Witness ==
    /\ ret.op = "find"
    /\ ret.kind = "null"
    /\ \E e \in Entries(getAll) : e.name = ret.args[1] /\ now - e.timestamp > timeout

\* C4: after a sweep no stored entry is older than timeout, and no entry is
\* ever stored longer than timeout plus one sweep interval after its last
\* registration.
C4_SweepRemovesExpired ==
    /\ ret.op = "sweep" => \A e \in Entries(getAll) : now - e.timestamp <= timeout
    /\ \A e \in Entries(getAll) : now - e.timestamp <= timeout + cleanupInterval

\* a sweep has removed an entry that had survived the sweep before, at which
\* its age was exactly timeout
C4_Witness ==
    /\ ret.op = "sweep"
    /\ ret.val = 1
    /\ timer = 3 * cleanupInterval
    /\ services = <<>>
    /\ nextId = 1

\* C5: find(name) does not throw; it returns null exactly when findAll(name)
\* is empty, and otherwise an element of findAll(name), which is a stored
\* entry of that name that has not expired.
C5_FindInFindAll ==
    ret.op = "find" =>
        /\ ret.kind \in {"null", "entry"}
        /\ ret.kind = "null" <=> findAll(ret.args[1], now) = <<>>
        /\ ret.kind = "entry" =>
              /\ ret.val \in Entries(findAll(ret.args[1], now))
              /\ ret.val \in Entries(services)
              /\ ret.val.name = ret.args[1]
              /\ now - ret.val.timestamp <= timeout

\* find returned one of two live entries of the name
C5_Witness ==
    /\ ret.op = "find"
    /\ ret.kind = "entry"
    /\ Len(findAll(ret.args[1], now)) = 2

C7_RegisterRejects ==
    [][ \A t \in Triples, metadata \in Metas :
          ( /\ ret'.op = "register"
            /\ t[1] = "" \/ t[2] = "" \/ t[3] = 0
            /\ Register(t[1], t[2], t[3], metadata) )
          => /\ ret'.kind = "error"
             /\ services' = services
             /\ nextId' = nextId
      ]_vars

\* a rejected register call on a store that has an entry
C7_Witness ==
    /\ ret.op = "register"
    /\ ret.kind = "error"
    /\ Len(services) = 1

\* C8: register of a triple that is already stored, expired or not, sets
\* the timestamp of that entry and nothing else: name, host, port, url and
\* metadata stay as first registered whatever metadata the call passes, the
\* stored entry is the one returned, and no other entry changes.
C8_RenewalOnlyTimestamp ==
    [][ \A t \in Triples, metadata \in Metas :
          ( /\ ret'.op = "register"
            /\ Valid(t[1], t[2], t[3])
            /\ IsStored(services, t[1], t[2], t[3])
            /\ Register(t[1], t[2], t[3], metadata) )
          => LET key == _generateKey(t[1], t[2], t[3])
             IN  /\ Len(services') = Len(services)
                 /\ \A i \in DOMAIN services :
                       services'[i] =
                          IF services[i].key = key
                          THEN [services[i] EXCEPT !.timestamp = now]
                          ELSE services[i]
                 /\ ret'.kind = "entry"
                 /\ ret'.val = Get(services', key)
                 /\ ret'.val.id = Get(services, key).id
      ]_vars

\* an entry registered with metadata was renewed after it had expired, next
\* to another entry
C8_Witness ==
    /\ ret.op = "register"
    /\ ret.log = "Service updated"
    /\ ret.val.metadata # {}
    /\ ret.val.timestamp > timeout
    /\ ret.val.id = 0
    /\ nextId = 2
    /\ Len(services) = 2
    /\ \A i \in DOMAIN services : services[i].timestamp # 0

\* C9: the sweep is one step: it deletes exactly the entries whose age
\* exceeds timeout when it runs and leaves the others as they are, so an
\* entry registered or renewed within timeout before the sweep survives it.
C9_SweepExact ==
    [][ ret'.op = "sweep" =>
          /\ \A e \in Entries(services) :
                e \in Entries(services') <=> now - e.timestamp <= timeout
          /\ Entries(services') \subseteq Entries(services)
          /\ ret'.val = Cardinality(Entries(services) \ Entries(services'))
      ]_vars

\* a sweep deleted one entry and kept the one renewed at the time it ran
C9_Witness ==
    /\ ret.op = "sweep"
    /\ ret.val = 1
    /\ Len(services) = 1
    /\ services[1].timestamp = now
    /\ services[1].id = 0

(***************************************************************************)
(* Properties of the base service.                                         *)
(***************************************************************************)
\* the stop() calls of s that are suspended
PendingStops(s) ==
    Cardinality({i \in DOMAIN mq :
                    mq[i].inst = s /\ mq[i].pc \in {"stop:unregister", "stop:cleanup"}})

\* the lifecycle state of s: Stopping while a stop() of s is suspended,
\* otherwise Running when isRunning is set, Starting while a start() of s
\* is suspended, Stopped when a stop() has completed, else Created
Phase(s) ==
    IF PendingStops(s) > 0 THEN "Stopping"
    ELSE IF svc[s].isRunning THEN "Running"
    ELSE IF PendingStarts(s) > 0 THEN "Starting"
    ELSE IF svc[s].stopped THEN "Stopped"
    ELSE "Created"

\* Created -> Starting -> Running -> Stopping -> Stopped; a start() that
\* meets no await passes through Starting within its step
Transitions ==
    { <<"Created", "Starting">>, <<"Created", "Running">>,
      <<"Starting", "Running">>, <<"Running", "Stopping">>,
      <<"Stopping", "Stopped">> }

\* C11: every change of the lifecycle state of a service is one of the
\* transitions Created -> Starting -> Running -> Stopping -> Stopped; a
\* service that is Stopped or Stopping never becomes Starting or Running.
\* Stated for the services none of whose hooks throws.
C11_LifecycleTransitions ==
    [][ \A s \in DOMAIN svc :
          \/ svc[s].faults # {}
          \/ Phase(s)' = Phase(s)
          \/ <<Phase(s), Phase(s)'>> \in Transitions
      ]_vars

\* the last step was a start() of s that ran to line 64
Started(s) ==
    /\ ret.op = "start"
    /\ ret.args = <<s>>
    /\ ret.log = "Service started successfully"

\* C10: when a start() that started the service returns, on a service given
\* a registry and a positive port, the registry stores an entry with the
\* service's name, host and port, registryInfo refers to that entry, and
\* findAll(name) includes it.
C10_StartedIsDiscoverable ==
    \A s \in DOMAIN svc :
        (Started(s) /\ svc[s].registry /\ svc[s].port > 0)
        => \E e \in Entries(services) :
              /\ Triple(e) = <<svc[s].name, Hostname, svc[s].port>>
              /\ svc[s].registryInfo = Ref(e)
              /\ e \in Entries(findAll(svc[s].name, now))

\* C12: a start() call on a service whose isRunning is set returns at once
\* and changes nothing: the registry and the timestamps of its entries, the
\* registry reference, the installed handlers, the running flag and the
\* pending continuations are as before.
C12_StartIdempotent ==
    [][ \A s \in DOMAIN svc :
          (svc[s].isRunning /\ ret'.op = "start" /\ StartCall(s))
          => /\ services' = services
             /\ svc' = svc
             /\ mq' = mq
             /\ ret'.kind = "returned"
             /\ ret'.log = "Service is already running"
      ]_vars

\* start() returned at once on a running service whose entry was registered
\* at an earlier time
C12_Witness ==
    /\ ret.op = "start"
    /\ ret.log = "Service is already running"
    /\ \E s \in DOMAIN svc :
          /\ ret.args = <<s>>
          /\ svc[s].registryInfo # NullRef
          /\ \E e \in Entries(services) :
                Ref(e) = svc[s].registryInfo /\ e.timestamp < now

\* the broker initialization or the registration of a start() of s throws
StartFails(s) ==
    \/ svc[s].broker /\ "broker" \in svc[s].faults
    \/ svc[s].registry /\ svc[s].port > 0 /\ "register" \in svc[s].faults

\* C13: on a service whose broker initialization or registration throws,
\* every start() that completes does so by throwing the error to its
\* caller, and the service is never marked running nor given handlers.
C13_StartPropagates ==
    \A s \in DOMAIN svc :
        StartFails(s)
        => /\ ~svc[s].isRunning
           /\ svc[s].handlers = 0
           /\ (ret.op = "start" /\ ret.args = <<s>> /\ ret.kind # "pending")
              => ret.kind = "thrown" /\ ret.log = "Failed to start service"

\* a start() has thrown after a failed registration while the other
\* service of the process runs
C13_Witness ==
    /\ ret.op = "start"
    /\ ret.args = <<"s1">>
    /\ ret.kind = "thrown"
    /\ "register" \in svc["s1"].faults
    /\ svc["s2"].isRunning

\* C14: a stop() call on a service that is not running changes nothing, and
\* when a stop() of a running service returns normally the service is not
\* running and the registry has no entry with the service's name, host and
\* port.  Left aside are an entry that another instance of the same name,
\* host and port holds as its own, and a stop() that returns while a start()
\* of the service is suspended.
C14_StopLeavesNoEntry ==
    [][ \A s \in DOMAIN svc :
          /\ (~svc[s].isRunning /\ ret'.op = "stop" /\ StopCall(s))
             => /\ services' = services
                /\ svc' = svc
                /\ mq' = mq
          /\ ( /\ ret'.op = "stop"
               /\ ret'.args = <<s>>
               /\ ret'.log = "Service stopped successfully"
               /\ PendingStarts(s)' = 0 )
             => /\ ~svc'[s].isRunning
                /\ \A e \in Entries(services') :
                      Triple(e) = <<svc[s].name, Hostname, svc[s].port>>
                      => \E o \in DOMAIN svc \ {s} : svc'[o].registryInfo = Ref(e)
      ]_vars

\* C15: while the cleanup of a stop() is in progress the entry the service
\* held when stop() was called is no longer stored, so unregistration comes
\* before cleanup; a stop() whose cleanup throws ends by throwing the
\* error, with that entry removed and the service still marked running and
\* not stopped.
C15_UnregisterBeforeCleanup ==
    /\ \A i \in DOMAIN mq :
          mq[i].pc = "stop:cleanup"
          => \A e \in Entries(services) : e.id # mq[i].info.id
    /\ \A s \in DOMAIN svc :
          (ret.op = "stop" /\ ret.args = <<s>> /\ ret.kind = "thrown")
          => /\ \A e \in Entries(services) : NumToString(e.id) # ret.val
             /\ svc[s].isRunning
             /\ ~svc[s].stopped
    /\ \A s \in DOMAIN svc :
          ( /\ "cleanup" \in svc[s].faults
            /\ ret.op = "stop" /\ ret.args = <<s>>
            /\ ret.kind = "returned" )
          => ret.log = "Service is not running"

\* a stop() has thrown from its cleanup after it removed the entry the
\* service held, and the registry has an entry registered since
C15_Witness ==
    /\ ret.op = "stop"
    /\ ret.kind = "thrown"
    /\ ret.val = "0"
    /\ services # <<>>

(***************************************************************************)
(* Properties of the process handlers.                                     *)
(***************************************************************************)
\* C16: when the handler of a termination signal exits the process, every
\* service that was running when the signal arrived has been unregistered
\* and cleaned up, its stop() having run to its end: no service is running
\* at the exit.  Stated for the services none of whose hooks throws.
C16_ShutdownOrder ==
    exitCode = 0 =>
        \A s \in DOMAIN svc : svc[s].faults = {} => ~svc[s].isRunning

\* C17: once an uncaught exception or an unhandled rejection has reached
\* the handlers of the started services, each of which has installed its
\* handlers once, the process eventually exits with code 1.
C17_ExceptionExits ==
    ( /\ ret.op \in {"uncaughtException", "unhandledRejection"}
      /\ \A s \in DOMAIN svc : svc[s].handlers <= 1 )
    ~> (exitCode = 1)

(***************************************************************************)
(* Properties of the consumer.                                             *)
(***************************************************************************)
\* C18: the callback is invoked once for every delivery; a delivery leaves
\* the unacknowledged ones only by an ack or a nack of its message; ack is
\* issued only for a delivery whose callback has resolved and removes the
\* message, nack only for one whose callback has rejected or thrown and
\* puts the message back in the queue; and a delivery whose callback has
\* settled has its ack or nack due in the microtask queue.
C18_AckXorNack ==
    [][ /\ \A d \in unacked' : d.invoked = 1
        /\ \A d \in unacked' :
              d.state # "handling"
              => Cardinality({i \in DOMAIN mq' :
                                 mq'[i].pc = "consume:settled" /\ mq'[i].msg = d.id}) = 1
        /\ \A i \in DOMAIN mq' :
              mq'[i].pc = "consume:settled"
              => \E d \in unacked' : d.id = mq'[i].msg /\ d.state # "handling"
        /\ \A d \in unacked :
              d.id \notin InFlight' => ret'.op \in {"ack", "nack"} /\ ret'.args = <<d.id>>
        /\ ret'.op = "ack"
              => /\ \E d \in unacked : d.id = ret'.args[1] /\ d.state = "resolved"
                 /\ ret'.args[1] \notin InFlight' \cup Queued'
        /\ (ret'.op = "nack" /\ ret'.kind # "threw")
              => /\ \E d \in unacked : d.id = ret'.args[1] /\ d.state = "rejected"
                 /\ ret'.args[1] \in Queued' \ InFlight'
        /\ (ret'.op = "nack" /\ ret'.kind = "threw")
              => /\ consumer.callback[ret'.args[1]] = "throw"
                 /\ ret'.args[1] \in Queued' \ InFlight'
      ]_vars

\* a message was acknowledged after another one had been rejected and
\* delivered again
C18_Witness ==
    /\ ret.op = "ack"
    /\ ret.args = <<"m2">>
    /\ \E d \in unacked : d.id = "m1" /\ d.redelivered

\* message m is in the queue of a consumer whose callback fails on it
Poison(m) ==
    /\ Subscribed
    /\ consumer.callback[m] # "ok"
    /\ m \in Queued \cup InFlight
    /\ \A d \in unacked : d.id = m => d.promise # "ok"

\* C19: a message whose callback fails on every call is not acknowledged
\* and stays in the queue at every step, and as long as the consumer stays
\* subscribed the message is delivered to the callback again and again.
C19_PoisonMessage ==
    /\ [][ \A m \in Msgs :
              Poison(m) => /\ m \in Queued' \cup InFlight'
                           /\ ~(ret'.op = "ack" /\ ret'.args = <<m>>) ]_vars
    /\ \A m \in Msgs : <>[]Poison(m) => []<><<DeliverOf(m)>>_consumeVars

\* a message that was rejected and delivered again has been rejected again
C19_Witness ==
    \E d \in unacked :
       /\ d.redelivered
       /\ d.promise = "fail"
       /\ d.state = "rejected"
       /\ Poison(d.id)

\* the consumer callback resumes for delivery d, whose callback has rejected
FailureResumes(d) ==
    /\ mq # <<>>
    /\ Head(mq).pc = "consume:settled"
    /\ Head(mq).msg = d.id
    /\ d.state = "rejected"
    /\ mq' = Tail(mq)

\* the channel delivers a message on which the callback throws
FailureDelivers ==
    /\ Subscribed
    /\ ready # <<>>
    /\ consumer.callback[Head(ready).id] = "throw"
    /\ deliveryTag' # deliveryTag

\* the process, the services and the subscription are as they were
Contained ==
    /\ svc' = svc
    /\ consumer' = consumer
    /\ listeners' = listeners
    /\ emitting' = emitting
    /\ rejected' = rejected
    /\ exitCode' = exitCode
    /\ services' = services

\* C20: the step in which a callback fails on a message puts that message
\* back at the head of the queue and changes nothing else: the other
\* messages and deliveries, the fields of the services, the subscription
\* and the process are as before, no promise is left rejected, and with the
\* consumer subscribed the channel has a message to deliver next.
C20_FailureContained ==
    [][ /\ \A d \in unacked :
              FailureResumes(d)
              => /\ Contained
                 /\ unacked' = unacked \ {d}
                 /\ ready' = <<[id |-> d.id, redelivered |-> TRUE]>> \o ready
                 /\ Subscribed => Alive' /\ Subscribed' /\ ready' # <<>>
        /\ FailureDelivers
              => /\ Contained
                 /\ unacked' = unacked
                 /\ ready' = <<[id |-> Head(ready).id, redelivered |-> TRUE]>>
                              \o Tail(ready)
                 /\ mq' = mq
                 /\ Alive' /\ Subscribed' /\ ready' # <<>>
      ]_vars

\* after the callback has failed on m1 and m1 has been delivered again,
\* the running service is handed m2
C20_Witness ==
    /\ ret.op = "deliver"
    /\ ret.args = <<"m2">>
    /\ \E d \in unacked : d.id = "m1" /\ d.redelivered
    /\ \E d \in unacked : d.id = "m2" /\ ~d.redelivered
    /\ Subscribed
    /\ svc[consumer.owner].isRunning
    /\ consumer.callback["m1"] = "fail"
    /\ exitCode = -1
(***************************************************************************)
(* Properties of the queue and exchange functions.                         *)
(***************************************************************************)
ChannelFunctions ==
    {"registerQueue", "registerExchange", "publishToQueue", "consumeFromQueue"}

\* C21: each of registerQueue, registerExchange, publishToQueue and
\* consumeFromQueue, called on a service without a channel, throws the
\* error "Message broker channel not available", calls nothing on the
\* channel, suspends nothing and leaves the queue and exchange tables as
\* they were.
C21_NoChannelFails ==
    [][ \A s \in DOMAIN svc :
          (ret'.op \in ChannelFunctions /\ ret'.args = <<s>> /\ ~svc[s].broker)
          => /\ ret'.kind = "thrown"
             /\ ret'.val = "Message broker channel not available"
             /\ chanOps' = chanOps
             /\ io' = io
             /\ queues' = queues
             /\ exchanges' = exchanges
      ]_vars

\* a service without a channel has failed to publish, while the service
\* with a channel has a queue in its table and has sent to it
C21_Witness ==
    /\ ret.op = "publishToQueue"
    /\ ret.kind = "thrown"
    /\ \E s \in DOMAIN svc : ret.args = <<s>> /\ ~svc[s].broker
    /\ \E i \in DOMAIN chanOps : chanOps[i].op = "sendToQueue"
    /\ \E s \in DOMAIN svc : queues[s] # {}
\* the operation a step has called on the channel last, if it called one
Called(o) == chanOps' # chanOps /\ chanOps'[Len(chanOps')] = o

\* C22: a step that sends to a queue or subscribes to it is made by a
\* service that has the queue in its table by then; a queue enters the
\* table of a service only in the step in which an assertQueue that the
\* service called for that name resolves; and publishToQueue and
\* consumeFromQueue on a queue that is not in the table call assertQueue
\* first.
C22_AssertBeforeUse ==
    [][ /\ \A s \in DOMAIN svc, name \in QueueNames :
              ( \/ Called(ChannelOp("sendToQueue", name, s))
                \/ Called(ChannelOp("consume", name, s)) )
              => /\ name \in queues'[s]
                 /\ \E i \in DOMAIN chanOps :
                       chanOps[i] = ChannelOp("assertQueue", name, s)
        /\ \A s \in DOMAIN svc, name \in QueueNames :
              (name \in queues'[s] /\ name \notin queues[s])
              => /\ \E i \in DOMAIN io :
                       /\ io[i].inst = s /\ io[i].name = name
                       /\ io[i].pc = "assertQueue"
                 /\ Len(io') < Len(io) \/ \E i \in DOMAIN io' : io'[i].pc = "consume"
                 /\ ret'.kind # "thrown"
        /\ \A s \in DOMAIN svc, name \in QueueNames :
              ( /\ ret'.op \in {"publishToQueue", "consumeFromQueue"}
                /\ ret'.args = <<s>>
                /\ svc[s].broker
                /\ name \notin queues[s]
                /\ Len(io') > Len(io)
                /\ io'[Len(io')].name = name )
              => Called(ChannelOp("assertQueue", name, s))
      ]_vars

(***************************************************************************)
(* Properties of the broker connector.                                     *)
(***************************************************************************)
\* C23: in every state reached through connect() calls, losses of
\* connections and reconnect timers, the only connection of the connector
\* that is open is the one it holds: at most one is open, and one that was
\* replaced is not left open.
C23_OneConnection == \A c \in Open : c = connection

\* a step in which the connector learns that it has no connection: a
\* connect() call fails, or a connection with listeners is lost
Loss ==
    \/ ret'.op = "lost" /\ ret'.log # ""
    \/ ret'.op = "connect" /\ ret'.log = "Failed to connect to RabbitMQ"

\* C24: every loss of the connection schedules one retry, and no more than
\* one reconnect timer is pending at any time.
C24_SingleRetry ==
    [][ /\ Loss => Len(timers') = Len(timers) + 1
        /\ Len(timers') <= 1 ]_vars

\* the connector holds a connection and a channel that are open
Holding ==
    /\ connection \in Open
    /\ channel \in Open

\* a connect() call has just failed
Failed == ret.op = "connect" /\ ret.log = "Failed to connect to RabbitMQ"

\* C25: connect() never raises; a failed attempt returns to its caller with
\* one more reconnect timer pending; and when the broker is reachable from
\* some time on, every failed attempt is followed by a state in which the
\* connector holds an open connection and channel.
C25_ReconnectsForever ==
    /\ [](ret.op = "connect" => ret.kind # "thrown")
    /\ [][(ret'.op = "connect" /\ ret'.log = "Failed to connect to RabbitMQ")
            => /\ ret'.kind = "returned"
               /\ Len(timers') = Len(timers) + 1]_vars
    /\ (<>[]reachable) => (Failed ~> Holding)

\* a connect() call made by a reconnect timer has connected
C25_Witness ==
    /\ ret.op = "connect"
    /\ ret.args = <<"timer">>
    /\ ret.log = "Connected to RabbitMQ"
    /\ Holding

(***************************************************************************)
(* Properties of the service factory.                                      *)
(***************************************************************************)
\* C26: in a process that uses the broker, every instance in the table of
\* the factory that is not a gateway was constructed with a connection and
\* a channel; a createService call that could not get them stores nothing.
C26_AllOrNothing ==
    argv # "-s=api-gateway" =>
        \A e \in Entries(instances) :
            e.type # "api-gateway" => e.connection # NoConn /\ e.channel # NoConn

\* C27: a createService call whose type is missing or is not one of the
\* known types does not return an instance, leaves the table of the factory
\* and the registry as they were, and starts no connect attempt on the
\* broker.
C27_UnknownTypeFails ==
    [][(ret'.op = "createService" /\ ret'.args[1] \notin serviceTypes)
        => /\ ret'.kind # "returned"
           /\ instances' = instances
           /\ services' = services
           /\ \A i \in DOMAIN attempts' :
                 ( /\ attempts'[i].caller = "createService"
                   /\ attempts'[i].pc = "amqp.connect" )
                     => attempts'[i].type \in serviceTypes]_vars

\* C28: every createService call that returns an instance adds one key to
\* the table of the factory and leaves every instance stored before it in
\* place.
C28_UniqueIds ==
    [][(ret'.op = "createService" /\ ret'.kind = "returned")
        => /\ Len(instances') = Len(instances) + 1
           /\ \A i \in DOMAIN instances : instances'[i] = instances[i]]_vars

\* C29: the instance a createService call returns has the port given in the
\* options when they give one, and the default port of its type when the
\* options have no port or a port without a value.
C29_PortResolution ==
    [][(ret'.op = "createService" /\ ret'.kind = "returned")
        => Get(instances', ret'.val).port =
              IF ret'.args[2] = "value" THEN 4000
              ELSE _getDefaultPort(ret'.args[1])]_vars

\* a createService call for the gateway has been made or has returned
GatewayStep == ret'.op = "createService" /\ ret'.args[1] = "api-gateway"

\* a createService call for another type has constructed its instance
OtherConstructed ==
    /\ ret'.op = "createService"
    /\ ret'.kind = "returned"
    /\ ret'.args[1] # "api-gateway"

\* C30: creating a gateway service starts no connect() call and opens no
\* connection, and its instance has neither connection nor channel; in the
\* process of the gateway the connector never has a connection, a channel,
\* a pending attempt or a reconnect timer; and an instance of another type
\* is constructed only by a createService call whose connect() call has
\* returned.
C30_GatewayBrokerFree ==
    /\ [][GatewayStep
            => /\ attempts' = attempts
               /\ conns' = conns
               /\ connection' = connection /\ channel' = channel
               /\ ret'.kind = "returned"
                    => /\ Get(instances', ret'.val).connection = NoConn
                       /\ Get(instances', ret'.val).channel = NoConn]_vars
    /\ [](argv = "-s=api-gateway"
            => /\ connection = NoConn /\ channel = NoConn
               /\ Open = {}
               /\ timers = <<>>
               /\ \A i \in DOMAIN attempts : attempts[i].pc = "returned")
    /\ [][OtherConstructed
            => \E i \in DOMAIN attempts :
                  /\ attempts[i].pc = "returned"
                  /\ attempts[i].type = ret'.args[1]
                  /\ attempts' = Without(attempts, i)]_vars

\* in the process of the gateway, a gateway instance and an instance of
\* another type are in the table, the gateway created last
C30_Witness ==
    /\ argv = "-s=api-gateway"
    /\ ret.op = "createService" /\ ret.kind = "returned"
    /\ ret.args[1] = "api-gateway"
    /\ Get(instances, ret.val).connection = NoConn
    /\ \E e \in Entries(instances) : e.type = "api"

(***************************************************************************)
(* Properties of close() of the broker connector.                          *)
(***************************************************************************)
\* the close() calls that wait for the connection to close
Closing(as) ==
    Cardinality({i \in DOMAIN as : as[i].pc = "connection.close"})

\* C31: close() never raises; it asks the connection to close only when the
\* channel the connector holds is closed; and when it returns in a process
\* that has at most one open connection and no other close() call under
\* way, neither the channel nor the connection the connector holds is open.
C31_CloseBoth ==
    [][ret'.op = "close"
        => /\ ret'.kind # "thrown"
           /\ Closing(attempts') > Closing(attempts) => ~ChannelOpen(channel)'
           /\ ( /\ ret'.kind = "returned"
                 /\ Cardinality(Open) <= 1
                 /\ \A i \in DOMAIN attempts' : attempts'[i].caller # "close" )
                 => /\ connection' \notin Open'
                    /\ ~ChannelOpen(channel)']_vars

(***************************************************************************)
(* Properties of the registry key.                                         *)
(***************************************************************************)
\* the (name, host, port) triple an entry was stored for
TripleOf(e) == <<e.name, e.host, e.port>>

\* C32: two different triples never share a stored entry: register of a
\* valid triple returns an entry of that triple and leaves every entry of
\* another triple as it was, and unregister of a triple leaves every entry
\* of another triple stored.
C32_KeyInjective ==
    [][ /\ \A t \in Triples, metadata \in Metas :
             ( /\ ret'.op = "register"
               /\ Valid(t[1], t[2], t[3])
               /\ Register(t[1], t[2], t[3], metadata) )
             => /\ TripleOf(ret'.val) = t
                /\ \A i \in DOMAIN services :
                      TripleOf(services[i]) # t
                         => \E j \in DOMAIN services' : services'[j] = services[i]
        /\ \A t \in Triples :
             (ret'.op = "unregister" /\ Unregister(t[1], t[2], t[3]))
             => \A i \in DOMAIN services :
                   TripleOf(services[i]) # t
                      => \E j \in DOMAIN services' : services'[j] = services[i]
      ]_vars

(***************************************************************************)
(* Properties of a service and its entry in the registry.                  *)
(***************************************************************************)
\* the entry s holds a reference to is among those findAll returns for the
\* name of s now
Discoverable(s) ==
    LET found == findAll(svc[s].name, now)
    IN  \E i \in DOMAIN found : found[i].id = svc[s].registryInfo.id

\* C33: a service that is Running and holds the entry it registered at
\* start is discoverable: findAll of its name returns that entry, whatever
\* time has passed and however many sweeps have run.
C33_StaysDiscoverable ==
    \A s \in Instances :
       (svc[s].isRunning /\ svc[s].registryInfo # NullRef) => Discoverable(s)

\* the registry stores an entry under the key of the entry s refers to
Backed(s) ==
    LET info == svc[s].registryInfo
    IN  _generateKey(info.name, info.host, info.port) \in Keys(services)

\* no other instance has ever been started: s is the only user of its key
Alone(s) ==
    \A r \in Instances \ {s} :
       /\ svc[r].handlers = 0
       /\ svc[r].registryInfo = NullRef
       /\ \A i \in DOMAIN mq : mq[i].inst # r

\* a stop() of a service that was started once and has no other call under
\* way, run to its end, leaves the reference cleared
ClearedAfterStop ==
    [][ \A s \in Instances :
          ( /\ ret'.op = "stop"
            /\ ret'.args = <<s>>
            /\ ret'.kind = "returned"
            /\ ret'.log = "Service stopped successfully"
            /\ Alone(s)
            /\ svc'[s].handlers = 1
            /\ \A i \in DOMAIN mq' : mq'[i].inst # s )
          => svc'[s].registryInfo = NullRef ]_vars

\* C34: the registry reference of a service is set only while the registry
\* stores the entry for the key of the service, and a stop() that has run
\* to its end leaves the reference cleared, also when the sweep removed the
\* entry before the stop() was called.  Stated for a service that is the
\* only one started in its process.
C34_ReferenceConsistent ==
    /\ [](\A s \in Instances :
            (Alone(s) /\ svc[s].registryInfo # NullRef) => Backed(s))
    /\ ClearedAfterStop

\* C35: a step of stop() of one instance leaves stored the entry of every
\* other instance that is Running and registered, also when both instances
\* have the same name, host and port.
C35_StopLeavesOthers ==
    [][ \A s \in Instances, r \in Instances :
          ( /\ ret'.op = "stop"
            /\ ret'.args = <<s>>
            /\ r # s
            /\ svc[r].isRunning
            /\ svc[r].registryInfo # NullRef
            /\ Backed(r) )
          => LET info == svc[r].registryInfo
             IN  _generateKey(info.name, info.host, info.port) \in Keys(services')
      ]_vars

\* C36: over any sequence of start() and stop() calls an instance installs
\* the handlers of the process events at most once.
C36_HandlersOnce ==
    \A s \in Instances : svc[s].handlers <= 1

(***************************************************************************)
(* Properties of the concrete services.                                    *)
(***************************************************************************)
\* the key a service registers under
KeyOf(s) == _generateKey(svc[s].name, Hostname, svc[s].port)

\* C37: start() of the api or otp service is all-or-nothing: when it throws,
\* the service is not marked Running and the registry stores no entry for
\* it.
C37_StartAllOrNothing ==
    [][ \A s \in Instances :
          ( /\ ret'.op = "start"
            /\ ret'.args = <<s>>
            /\ ret'.kind = "thrown" )
          => /\ ~svc'[s].isRunning
             /\ KeyOf(s) \notin Keys(services') ]_vars

\* C40: a stop() of a concrete service that has ended, by returning or by
\* throwing the error of the close of its HTTP server, with no other call
\* of the service under way, leaves no entry of the service in the
\* registry.
C40_StopUnregisters ==
    [][ \A s \in Instances :
          ( /\ ret'.op = "stop"
            /\ ret'.args = <<s>>
            /\ ret'.kind \in {"returned", "thrown"}
            /\ \A i \in DOMAIN mq' : mq'[i].inst # s
            /\ \A i \in DOMAIN io' : io'[i].inst # s )
          => KeyOf(s) \notin Keys(services') ]_vars

(***************************************************************************)
(* Properties of the connector after close().                              *)
(***************************************************************************)
\* no connect() that a caller made is under way
NoConnectUnderWay ==
    \A i \in DOMAIN attempts : attempts[i].caller \in {"timer", "close"}

\* C39: once close() has been called, and until connect() is called again,
\* no reconnect is scheduled and no connection is opened.  Stated for the
\* steps taken while no connect() that a caller made before the close() is
\* still under way.
C39_CloseFinal ==
    [][ (closeCalled /\ closeCalled' /\ NoConnectUnderWay)
        => /\ Len(timers') <= Len(timers)
           /\ Open' \subseteq Open ]_vars

(***************************************************************************)
(* Properties of the services across a reconnect.                          *)
(***************************************************************************)
\* C38: whenever the connector holds an established channel, every service
\* that the factory constructed with a channel uses that channel.
C38_ServicesFollowChannel ==
    ChannelOpen(channel) =>
        \A e \in Entries(instances) : e.channel # NoConn => e.channel = channel
====
